---- MODULE Spec2Model ----
(***************************************************************************)
(* Store (database.py), paper search and analysis (paper_manager.py) and   *)
(* chat bot (chat_bot.py), session history (utils.py) and chat page        *)
(* (research_assistant.py) of the research assistant, as a state machine   *)
(* over the SQLite tables and the Streamlit session state.                 *)
(*                                                                         *)
(* Representation of Python values:                                        *)
(*   str            a sequence of one-character strings, where the code    *)
(*                  slices, lower-cases or concatenates it; a TLA+ string  *)
(*                  where the code only stores and compares it             *)
(*   Optional[x]    {} for None, {x} otherwise                             *)
(*   dict           a function from key names to values                    *)
(*   list           a sequence                                             *)
(*   datetime.now() the variable clock, in seconds                         *)
(***************************************************************************)
EXTENDS Integers, Sequences, FiniteSets, TLC

VARIABLES
    db,                 \* the SQLite file: its tables and sqlite_sequence
    paper_search_cache, \* st.session_state.paper_search_cache
    clock,              \* the wall clock datetime.now() reads, in seconds
    chat_history,       \* st.session_state.chat_history
    research_context,   \* the chat bot's research_context
    research_history,   \* st.session_state.research_history
    current_user,       \* st.session_state.current_user
    analyzing,          \* per browser session: its analyze_paper call in progress
    last                \* the call just made: name, arguments, result, trace

vars ==
    <<db, paper_search_cache, clock, chat_history, research_context,
      research_history, current_user, analyzing, last>>

---------------------------------------------------------------------------
(* Bounds of the model.                                                    *)
MaxClock == 1          \* the clock runs over 0..MaxClock
MaxAnalysisRows == 2   \* rowids paper_analysis hands out
MaxSavedRows == 2      \* rowids user_papers hands out
MaxCacheEntries == 1   \* entries of paper_search_cache
MaxTurns == 2          \* calls of generate_response in a session
MaxUsers == 2          \* rowids users hands out
MaxPapers == 3         \* rowids papers hands out to saved papers
MaxHistoryRows == 2    \* rowids research_history hands out to add_history_item

---------------------------------------------------------------------------
(* Python strings and containers.                                          *)

None == {}
Some(x) == {x}
The(o) == CHOOSE x \in o : TRUE

UpperLetters ==
    <<"A", "B", "C", "D", "E", "F", "G", "H", "I", "J", "K", "L", "M", "N",
      "O", "P", "Q", "R", "S", "T", "U", "V", "W", "X", "Y", "Z">>
LowerLetters ==
    <<"a", "b", "c", "d", "e", "f", "g", "h", "i", "j", "k", "l", "m", "n",
      "o", "p", "q", "r", "s", "t", "u", "v", "w", "x", "y", "z">>
Digits ==
    <<"0", "1", "2", "3", "4", "5", "6", "7", "8", "9">>

\* str.lower() on ASCII text
LowerChar(c) ==
    IF \E i \in 1..26 : UpperLetters[i] = c
    THEN LowerLetters[CHOOSE i \in 1..26 : UpperLetters[i] = c]
    ELSE c
Lower(s) == [i \in 1..Len(s) |-> LowerChar(s[i])]

\* str.replace(a, b) for one-character a and b
Replace(s, a, b) == [i \in 1..Len(s) |-> IF s[i] = a THEN b ELSE s[i]]

\* s[:n]
SliceTo(s, n) ==
    IF n >= 0
    THEN SubSeq(s, 1, IF n < Len(s) THEN n ELSE Len(s))
    ELSE SubSeq(s, 1, IF Len(s) + n > 0 THEN Len(s) + n ELSE 0)

\* str(n) of an integer, as an f-string formats it
RECURSIVE NatToStr(_)
NatToStr(n) ==
    IF n < 10 THEN <<Digits[n + 1]>>
    ELSE NatToStr(n \div 10) \o <<Digits[(n % 10) + 1]>>
IntToStr(n) == IF n < 0 THEN <<"-">> \o NatToStr(-n) ELSE NatToStr(n)

\* sep.join(parts), parts a sequence of strings
RECURSIVE Join(_, _)
Join(sep, parts) ==
    IF parts = <<>> THEN <<>>
    ELSE IF Len(parts) = 1 THEN parts[1]
    ELSE parts[1] \o sep \o Join(sep, Tail(parts))

\* the characters of a string, each as a string of its own
EachChar(s) == [i \in 1..Len(s) |-> <<s[i]>>]

\* d.get(k, default)
Get(d, k, default) == IF k \in DOMAIN d THEN d[k] ELSE default

\* d[k] = v
Put(d, k, v) == [x \in (DOMAIN d) \cup {k} |-> IF x = k THEN v ELSE d[x]]

\* a Python list and a Python str, where the code tests isinstance(_, list)
PyList(items) == [type |-> "list", items |-> items]
PyStr(chars) == [type |-> "str", chars |-> chars]
\* Python's None where a list or str is expected
PyNone == [type |-> "none"]

\* json.dumps of a list of strings free of characters JSON escapes
JsonDumpsStrList(names) ==
    <<"[">> \o Join(<<",", " ">>,
                    [i \in 1..Len(names) |-> <<"\"">> \o names[i] \o <<"\"">>])
            \o <<"]">>

\* json.dumps / json.loads of the dicts and lists of strings the program
\* stores: the text is kept as the value it encodes
JsonDumps(v) == [json |-> v]
JsonLoads(text) == text.json

---------------------------------------------------------------------------
(* database.py: the tables.  A table is the sequence of its rows in rowid  *)
(* order; sqlite_sequence holds, per AUTOINCREMENT table, the largest      *)
(* rowid ever handed out.                                                  *)

EmptyDb ==
    [users |-> <<>>, papers |-> <<>>, user_papers |-> <<>>,
     research_history |-> <<>>, paper_analysis |-> <<>>,
     sqlite_sequence |-> [users |-> 0, papers |-> 0, user_papers |-> 0,
                          research_history |-> 0, paper_analysis |-> 0]]

\* cursor.fetchone(): the first row of the result, or None
FetchOne(rows) == IF rows = <<>> THEN None ELSE Some(rows[1])

\* INSERT of one row under the next AUTOINCREMENT rowid
NextRowId(d, table) == d.sqlite_sequence[table] + 1
InsertRow(d, table, row) ==
    [d EXCEPT ![table] = Append(@, row),
              !.sqlite_sequence[table] = @ + 1]

\* the constraints of the schema an INSERT can violate (sqlite3.IntegrityError)
UsersUniqueUsernameOnly(d, username, email) ==
    \E i \in 1..Len(d.users) : d.users[i].username = username
UsersUniqueViolated(d, username, email) ==
    \E i \in 1..Len(d.users) :
        d.users[i].username = username \/ d.users[i].email = email
PapersUniqueDropped(d, paper_id) == FALSE
PapersUniqueViolated(d, paper_id) ==
    \E i \in 1..Len(d.papers) : d.papers[i].paper_id = paper_id
\* authors TEXT NOT NULL, bound from paper_data['authors']
PapersNotNullViolated(paper_data) == paper_data["authors"].type = "none"
UserPapersUniqueDropped(d, user_id, paper_id) == FALSE
UserPapersUniqueViolated(d, user_id, paper_id) ==
    \E i \in 1..Len(d.user_papers) :
        d.user_papers[i].user_id = user_id /\ d.user_papers[i].paper_id = paper_id
UserForeignKeyViolated(d, user_id) ==
    ~ \E i \in 1..Len(d.users) : d.users[i].id = user_id
PaperForeignKeyViolated(d, paper_id) ==
    ~ \E i \in 1..Len(d.papers) : d.papers[i].id = paper_id
PaperAnalysisInsertViolated(d, paper_id) ==
    PaperForeignKeyViolated(d, paper_id)

---------------------------------------------------------------------------
(* Database.create_user, get_user_by_username                              *)

get_user_by_username(d, username) ==
    LET Where(row) == row.username = username
    IN  FetchOne(SelectSeq(d.users, Where))

\* the result of create_user: the database afterwards and the value returned
db_create_user(d, username, email, password_hash, now) ==
    IF UsersUniqueViolated(d, username, email)
    THEN [db |-> d, ret |-> None]
    ELSE LET d2 == InsertRow(d, "users",
                       [id |-> NextRowId(d, "users"), username |-> username,
                        email |-> email, password_hash |-> password_hash,
                        join_date |-> now, last_login |-> None,
                        preferences |-> None])
         IN  [db |-> d2, ret |-> get_user_by_username(d2, username)]

---------------------------------------------------------------------------
(* Database.add_paper                                                      *)

PaperIdTitleLen == 50

CoreKeys ==
    {"paper_id", "title", "authors", "year", "source", "abstract",
     "citation_count", "url"}

\* f"{paper_data['source']}_{paper_data['title'][:50]}"
DerivedPaperId(paper_data) ==
    paper_data["source"] \o <<"_">> \o SliceTo(paper_data["title"], PaperIdTitleLen)

\* lines 179-180: the key is generated when the record carries none
WithPaperId(paper_data) ==
    IF "paper_id" \notin DOMAIN paper_data
    THEN Put(paper_data, "paper_id", DerivedPaperId(paper_data))
    ELSE paper_data

\* lines 183-184: an authors list becomes its JSON text
WithAuthorsJson(paper_data) ==
    IF "authors" \in DOMAIN paper_data /\ paper_data["authors"].type = "list"
    THEN Put(paper_data, "authors",
             PyStr(JsonDumpsStrList(paper_data["authors"].items)))
    ELSE paper_data

\* lines 187-193: keys outside the core schema are popped into metadata;
\* metadata and date_added are set on the caller's dict
WithMetadata(paper_data, now) ==
    LET metadata == [k \in (DOMAIN paper_data) \ CoreKeys |-> paper_data[k]]
        core == [k \in (DOMAIN paper_data) \cap CoreKeys |-> paper_data[k]]
    IN  Put(Put(core, "metadata", JsonDumps(metadata)), "date_added", now)

\* the year column is declared TEXT: an integer bound to it is stored as
\* its decimal text; paper_data.get('year', '') when the record has none
YearColumn(paper_data) ==
    IF "year" \in DOMAIN paper_data THEN IntToStr(paper_data["year"]) ELSE <<>>

\* lines 201-212: the row the INSERT binds
PaperRow(id, paper_data) ==
    [id |-> id,
     paper_id |-> paper_data["paper_id"],
     title |-> paper_data["title"],
     authors |-> paper_data["authors"].chars,
     year |-> YearColumn(paper_data),
     source |-> Get(paper_data, "source", <<>>),
     abstract |-> Get(paper_data, "abstract", ""),
     citation_count |-> Get(paper_data, "citation_count", 0),
     url |-> Get(paper_data, "url", ""),
     metadata |-> paper_data["metadata"],
     date_added |-> paper_data["date_added"]]

\* lines 217-221: SELECT id FROM papers WHERE paper_id = ?
SelectPaperId(d, paper_id) ==
    LET Where(row) == row.paper_id = paper_id
        result == FetchOne(SelectSeq(d.papers, Where))
    IN  IF result # None THEN Some(The(result).id) ELSE None

\* the result of add_paper: the database afterwards, the value returned,
\* the caller's dict as the call leaves it, and whether KeyError was raised
db_add_paper(d, paper_data, now) ==
    IF "paper_id" \notin DOMAIN paper_data
       /\ ~ ({"source", "title"} \subseteq DOMAIN paper_data)
    THEN [db |-> d, ret |-> None, paper_data |-> paper_data, raised |-> TRUE]
    ELSE
    LET prepared == WithMetadata(WithAuthorsJson(WithPaperId(paper_data)), now)
    IN  IF ~ ({"title", "authors"} \subseteq DOMAIN prepared)
        THEN [db |-> d, ret |-> None, paper_data |-> prepared, raised |-> TRUE]
        ELSE IF \/ PapersUniqueViolated(d, prepared["paper_id"])
                \/ PapersNotNullViolated(prepared)
        THEN [db |-> d, ret |-> SelectPaperId(d, prepared["paper_id"]),
              paper_data |-> prepared, raised |-> FALSE]
        ELSE [db |-> InsertRow(d, "papers",
                               PaperRow(NextRowId(d, "papers"), prepared)),
              ret |-> Some(NextRowId(d, "papers")),
              paper_data |-> prepared, raised |-> FALSE]

---------------------------------------------------------------------------
(* Database.save_paper_for_user, remove_saved_paper                        *)

\* the result of save_paper_for_user
db_save_paper_for_user(d, user_id, paper_data, now) ==
    LET added == db_add_paper(d, paper_data, now)
    IN  IF added.raised
        THEN [db |-> added.db, ret |-> FALSE, paper_data |-> added.paper_data,
              raised |-> TRUE]
        ELSE IF added.ret = None
        THEN [db |-> added.db, ret |-> FALSE, paper_data |-> added.paper_data,
              raised |-> FALSE]
        ELSE
        LET paper_id == The(added.ret)
        IN  IF UserPapersUniqueViolated(added.db, user_id, paper_id)
               \/ UserForeignKeyViolated(added.db, user_id)
               \/ PaperForeignKeyViolated(added.db, paper_id)
            THEN [db |-> added.db, ret |-> TRUE,
                  paper_data |-> added.paper_data, raised |-> FALSE]
            ELSE [db |-> InsertRow(added.db, "user_papers",
                                   [id |-> NextRowId(added.db, "user_papers"),
                                    user_id |-> user_id, paper_id |-> paper_id,
                                    date_saved |-> now, notes |-> None]),
                  ret |-> TRUE, paper_data |-> added.paper_data,
                  raised |-> FALSE]

db_remove_paper_of_every_user(d, user_id, paper_id) ==
    LET Keep(row) == row.paper_id # paper_id
        kept == SelectSeq(d.user_papers, Keep)
    IN  [db |-> [d EXCEPT !.user_papers = kept],
         ret |-> Len(d.user_papers) - Len(kept) > 0]

\* the result of remove_saved_paper
db_remove_saved_paper(d, user_id, paper_id) ==
    LET Keep(row) == ~ (row.user_id = user_id /\ row.paper_id = paper_id)
        kept == SelectSeq(d.user_papers, Keep)
    IN  [db |-> [d EXCEPT !.user_papers = kept],
         ret |-> Len(d.user_papers) - Len(kept) > 0]

---------------------------------------------------------------------------
(* Database.save_paper_analysis, get_paper_analysis                        *)

\* lines 320-323: the columns bound from analysis_data
AnalysisColumns(analysis_data) ==
    [summary |-> Get(analysis_data, "summary", <<>>),
     key_findings |-> JsonDumps(Get(analysis_data, "key_findings", <<>>)),
     methodology |-> JsonDumps(Get(analysis_data, "methodology", <<>>)),
     implications |-> JsonDumps(Get(analysis_data, "implications", <<>>))]

\* lines 335-339: UPDATE paper_analysis SET ... WHERE paper_id = ?
UpdateAnalysis(d, paper_id, cols, now) ==
    [d EXCEPT !.paper_analysis =
        [i \in 1..Len(@) |->
            IF @[i].paper_id = paper_id
            THEN [@[i] EXCEPT !.summary = cols.summary,
                              !.key_findings = cols.key_findings,
                              !.methodology = cols.methodology,
                              !.implications = cols.implications,
                              !.date_analyzed = now]
            ELSE @[i]]]

\* the result of save_paper_analysis
db_save_paper_analysis(d, paper_id, analysis_data, now) ==
    LET cols == AnalysisColumns(analysis_data)
        Where(row) == row.paper_id = paper_id
    IN  IF ~ PaperAnalysisInsertViolated(d, paper_id)
        THEN [db |-> InsertRow(d, "paper_analysis",
                        [id |-> NextRowId(d, "paper_analysis"),
                         paper_id |-> paper_id, summary |-> cols.summary,
                         key_findings |-> cols.key_findings,
                         methodology |-> cols.methodology,
                         implications |-> cols.implications,
                         date_analyzed |-> now]),
              ret |-> TRUE]
        ELSE [db |-> UpdateAnalysis(d, paper_id, cols, now),
              ret |-> Len(SelectSeq(d.paper_analysis, Where)) > 0]

\* get_paper_analysis: the first row of the paper in rowid order, its JSON
\* columns loaded, or None
db_get_paper_analysis(d, paper_id) ==
    LET Where(row) == row.paper_id = paper_id
        analysis == FetchOne(SelectSeq(d.paper_analysis, Where))
    IN  IF analysis # None
        THEN Some([The(analysis) EXCEPT
                     !.key_findings = JsonLoads(@),
                     !.methodology = JsonLoads(@),
                     !.implications = JsonLoads(@)])
        ELSE None


---------------------------------------------------------------------------
(* Database.update_user, update_last_login                                 *)

\* line 148: the columns update_user may set
UpdatableColumns == {"username", "email", "password_hash", "preferences"}

SetValuesUnfiltered(updates) == updates

\* lines 147-150: the columns and values of the SET clause
SetValues(updates) ==
    [key \in (DOMAIN updates) \cap UpdatableColumns |-> updates[key]]

UsersUpdateUnchecked(d, user_id, set_values) == FALSE

\* the constraints of users an UPDATE of the row user_id to text values
\* can violate: UNIQUE(username), UNIQUE(email) against the other rows
UsersUpdateViolated(d, user_id, set_values) ==
    \E i \in 1..Len(d.users) :
        /\ d.users[i].id = user_id
        /\ \E key \in (DOMAIN set_values) \cap {"username", "email"} :
               \E j \in 1..Len(d.users) :
                   j # i /\ d.users[j][key] = set_values[key]

\* the row after UPDATE ... SET
UpdatedRow(row, set_values) ==
    [key \in (DOMAIN row) \cup (DOMAIN set_values) |->
        IF key \in DOMAIN set_values THEN set_values[key] ELSE row[key]]

\* the result of update_user: the database afterwards and the value returned
db_update_user(d, user_id, updates) ==
    IF DOMAIN updates = {} THEN [db |-> d, ret |-> FALSE]
    ELSE LET set_values == SetValues(updates)
         IN  IF DOMAIN set_values = {} THEN [db |-> d, ret |-> FALSE]
             ELSE IF UsersUpdateViolated(d, user_id, set_values)
             THEN [db |-> d, ret |-> FALSE]
             ELSE [db |-> [d EXCEPT !.users =
                              [i \in 1..Len(d.users) |->
                                  IF d.users[i].id = user_id
                                  THEN UpdatedRow(d.users[i], set_values)
                                  ELSE d.users[i]]],
                   ret |-> \E i \in 1..Len(d.users) : d.users[i].id = user_id]

\* the result of update_last_login
db_update_last_login(d, user_id, now) ==
    [db |-> [d EXCEPT !.users =
                [i \in 1..Len(d.users) |->
                    IF d.users[i].id = user_id
                    THEN [d.users[i] EXCEPT !.last_login = Some(now)]
                    ELSE d.users[i]]],
     ret |-> \E i \in 1..Len(d.users) : d.users[i].id = user_id]

---------------------------------------------------------------------------
(* Database.add_history_item                                               *)

\* the result of add_history_item.  The INSERT is not guarded: a user_id
\* of no user violates the foreign key and the IntegrityError reaches the
\* caller.
db_add_history_item(d, user_id, activity_type, title, description, now) ==
    IF UserForeignKeyViolated(d, user_id)
    THEN [db |-> d, ret |-> None, raised |-> TRUE]
    ELSE [db |-> InsertRow(d, "research_history",
                     [id |-> NextRowId(d, "research_history"),
                      user_id |-> user_id, activity_type |-> activity_type,
                      title |-> title, description |-> description,
                      date |-> now]),
          ret |-> Some(TRUE), raised |-> FALSE]
---------------------------------------------------------------------------
(* paper_manager.py: the source adapters.  Each returns its two sample     *)
(* records, fresh dicts on every call, whatever the query.  raised tells   *)
(* whether an exception was raised inside the adapter's try block: the     *)
(* except clause then returns the empty list.                              *)

SemTitle1 ==
    <<"A", "t", "t", "e", "n", "t", "i", "o", "n", " ", "I", "s", " ", "A",
      "l", "l", " ", "Y", "o", "u", " ", "N", "e", "e", "d">>
SemTitle2 ==
    <<"B", "E", "R", "T", ":", " ", "P", "r", "e", "-", "t", "r", "a", "i",
      "n", "i", "n", "g", " ", "o", "f", " ", "D", "e", "e", "p", " ", "B",
      "i", "d", "i", "r", "e", "c", "t", "i", "o", "n", "a", "l", " ", "T",
      "r", "a", "n", "s", "f", "o", "r", "m", "e", "r", "s", " ", "f", "o",
      "r", " ", "L", "a", "n", "g", "u", "a", "g", "e", " ", "U", "n", "d",
      "e", "r", "s", "t", "a", "n", "d", "i", "n", "g">>
ArxivTitle1 ==
    <<"G", "P", "T", "-", "4", " ", "T", "e", "c", "h", "n", "i", "c", "a",
      "l", " ", "R", "e", "p", "o", "r", "t">>
ArxivTitle2 ==
    <<"L", "a", "n", "g", "u", "a", "g", "e", " ", "M", "o", "d", "e", "l",
      "s", " ", "a", "r", "e", " ", "F", "e", "w", "-", "S", "h", "o", "t",
      " ", "L", "e", "a", "r", "n", "e", "r", "s">>
PubmedTitle1 ==
    <<"T", "h", "e", " ", "r", "o", "l", "e", " ", "o", "f", " ", "A", "I",
      " ", "i", "n", " ", "g", "e", "n", "o", "m", "i", "c", "s", " ", "a",
      "n", "d", " ", "p", "r", "e", "c", "i", "s", "i", "o", "n", " ", "m",
      "e", "d", "i", "c", "i", "n", "e">>
PubmedTitle2 ==
    <<"N", "e", "u", "r", "a", "l", " ", "b", "a", "s", "i", "s", " ", "o",
      "f", " ", "l", "a", "n", "g", "u", "a", "g", "e", " ", "c", "o", "m",
      "p", "r", "e", "h", "e", "n", "s", "i", "o", "n">>
SourceSemanticScholar ==
    <<"S", "e", "m", "a", "n", "t", "i", "c", " ", "S", "c", "h", "o", "l",
      "a", "r">>
SourceArxiv ==
    <<"a", "r", "X", "i", "v">>
SourcePubmed ==
    <<"P", "u", "b", "M", "e", "d">>

_fetch_from_semantic_scholar(query, year_range, max_results, raised) ==
    IF raised THEN <<>> ELSE
    << [id |-> "sem1", title |-> SemTitle1,
        authors |-> PyList(<< <<"A", "s", "h", "i", "s", "h", " ", "V", "a", "s", "w", "a", "n", "i">>,
                              <<"N", "o", "a", "m", " ", "S", "h", "a", "z", "e", "e", "r">>,
                              <<"N", "i", "k", "i", " ", "P", "a", "r", "m", "a", "r">> >>),
        year |-> 2017,
        abstract |-> "The dominant sequence transduction models ...",
        citation_count |-> 45000, source |-> SourceSemanticScholar,
        url |-> "https://api.semanticscholar.org/v1/paper/sem1"],
       [id |-> "sem2", title |-> SemTitle2,
        authors |-> PyList(<< <<"J", "a", "c", "o", "b", " ", "D", "e", "v", "l", "i", "n">>,
                              <<"M", "i", "n", "g", "-", "W", "e", "i", " ", "C", "h", "a", "n", "g">>,
                              <<"K", "e", "n", "t", "o", "n", " ", "L", "e", "e">>,
                              <<"K", "r", "i", "s", "t", "i", "n", "a", " ", "T", "o", "u", "t", "a", "n", "o", "v", "a">> >>),
        year |-> 2018,
        abstract |-> "We introduce a new language representation model called BERT ...",
        citation_count |-> 35000, source |-> SourceSemanticScholar,
        url |-> "https://api.semanticscholar.org/v1/paper/sem2"] >>

_fetch_from_arxiv(query, year_range, max_results, raised) ==
    IF raised THEN <<>> ELSE
    << [id |-> "arxiv1", title |-> ArxivTitle1,
        authors |-> PyList(<< <<"O", "p", "e", "n", "A", "I", " ", "T", "e", "a", "m">> >>),
        year |-> 2023,
        abstract |-> "We report the development of GPT-4 ...",
        citation_count |-> 500, source |-> SourceArxiv,
        url |-> "https://arxiv.org/abs/arxiv1"],
       [id |-> "arxiv2", title |-> ArxivTitle2,
        authors |-> PyList(<< <<"T", "o", "m", " ", "B", ".", " ", "B", "r", "o", "w", "n">>,
                              <<"B", "e", "n", "j", "a", "m", "i", "n", " ", "M", "a", "n", "n">>,
                              <<"N", "i", "c", "k", " ", "R", "y", "d", "e", "r">> >>),
        year |-> 2020,
        abstract |-> "Recent work has demonstrated substantial gains on many NLP tasks ...",
        citation_count |-> 12000, source |-> SourceArxiv,
        url |-> "https://arxiv.org/abs/arxiv2"] >>

_fetch_from_pubmed(query, year_range, max_results, raised) ==
    IF raised THEN <<>> ELSE
    << [id |-> "pubmed1", title |-> PubmedTitle1,
        authors |-> PyList(<< <<"S", "a", "r", "a", "h", " ", "J", "o", "h", "n", "s", "o", "n">>,
                              <<"M", "i", "c", "h", "a", "e", "l", " ", "C", "h", "e", "n">> >>),
        year |-> 2022,
        abstract |-> "Artificial intelligence is transforming genomics ...",
        citation_count |-> 150, source |-> SourcePubmed,
        url |-> "https://pubmed.ncbi.nlm.nih.gov/pubmed1"],
       [id |-> "pubmed2", title |-> PubmedTitle2,
        authors |-> PyList(<< <<"D", "a", "v", "i", "d", " ", "M", "i", "l", "l", "e", "r">>,
                              <<"J", "e", "n", "n", "i", "f", "e", "r", " ", "S", "m", "i", "t", "h">> >>),
        year |-> 2021,
        abstract |-> "This fMRI study investigates the neural mechanisms ...",
        citation_count |-> 85, source |-> SourcePubmed,
        url |-> "https://pubmed.ncbi.nlm.nih.gov/pubmed2"] >>

---------------------------------------------------------------------------
(* ResearchPaperManager.fetch_research_papers                              *)

S_all ==
    <<"a", "l", "l">>
S_date ==
    <<"d", "a", "t", "e">>
S_citation_count ==
    <<"c", "i", "t", "a", "t", "i", "o", "n", "_", "c", "o", "u", "n", "t">>
S_relevance ==
    <<"r", "e", "l", "e", "v", "a", "n", "c", "e">>
S_semantic_scholar ==
    <<"s", "e", "m", "a", "n", "t", "i", "c", " ", "s", "c", "h", "o", "l",
      "a", "r">>
S_arxiv ==
    <<"a", "r", "x", "i", "v">>
S_pubmed ==
    <<"p", "u", "b", "m", "e", "d">>
S_google_scholar ==
    <<"g", "o", "o", "g", "l", "e", " ", "s", "c", "h", "o", "l", "a", "r">>

\* lines 49-52
SourceKey(source) ==
    IF source = None THEN S_all
    ELSE Replace(Lower(The(source)), " ", "_")

\* line 54: f"{query}_{source_key}_{year_range[0]}_{year_range[1]}_{sort_by}"
SearchKey(query, source, year_range, sort_by) ==
    query \o <<"_">> \o SourceKey(source) \o <<"_">>
          \o IntToStr(year_range[1]) \o <<"_">> \o IntToStr(year_range[2])
          \o <<"_">> \o sort_by

SourcesToQueryCaseSensitive(source) ==
    IF source = None THEN <<"semantic_scholar", "arxiv", "pubmed">>
    ELSE IF The(source) = SourceSemanticScholar THEN <<"semantic_scholar">>
    ELSE IF The(source) = SourceArxiv THEN <<"arxiv">>
    ELSE IF The(source) = SourcePubmed THEN <<"pubmed">>
    ELSE <<>>

\* lines 64-75
SourcesToQuery(source) ==
    IF source = None THEN <<"semantic_scholar", "arxiv", "pubmed">>
    ELSE IF Lower(The(source)) = S_semantic_scholar THEN <<"semantic_scholar">>
    ELSE IF Lower(The(source)) = S_arxiv THEN <<"arxiv">>
    ELSE IF Lower(The(source)) = S_pubmed THEN <<"pubmed">>
    ELSE <<>>

Contains(seq, x) == \E i \in 1..Len(seq) : seq[i] = x

\* lines 78-88: the adapters called, in the order of the calls
AdaptersCalled(sources_to_query) ==
    (IF Contains(sources_to_query, "semantic_scholar")
     THEN <<"_fetch_from_semantic_scholar">> ELSE <<>>)
    \o (IF Contains(sources_to_query, "arxiv")
        THEN <<"_fetch_from_arxiv">> ELSE <<>>)
    \o (IF Contains(sources_to_query, "pubmed")
        THEN <<"_fetch_from_pubmed">> ELSE <<>>)

\* lines 78-88: papers.extend(...) per source queried
\* raising: the sources whose adapter meets an exception in this search
QuerySourcesAbortOnFailure(sources_to_query, query, year_range, max_results, raising) ==
    IF \E i \in 1..Len(sources_to_query) : sources_to_query[i] \in raising
    THEN <<>>
    ELSE (IF Contains(sources_to_query, "semantic_scholar")
          THEN _fetch_from_semantic_scholar(query, year_range, max_results, FALSE)
          ELSE <<>>)
         \o (IF Contains(sources_to_query, "arxiv")
             THEN _fetch_from_arxiv(query, year_range, max_results, FALSE)
             ELSE <<>>)
         \o (IF Contains(sources_to_query, "pubmed")
             THEN _fetch_from_pubmed(query, year_range, max_results, FALSE)
             ELSE <<>>)

QuerySources(sources_to_query, query, year_range, max_results, raising) ==
    (IF Contains(sources_to_query, "semantic_scholar")
     THEN _fetch_from_semantic_scholar(query, year_range, max_results,
                                       "semantic_scholar" \in raising)
     ELSE <<>>)
    \o (IF Contains(sources_to_query, "arxiv")
        THEN _fetch_from_arxiv(query, year_range, max_results,
                               "arxiv" \in raising)
        ELSE <<>>)
    \o (IF Contains(sources_to_query, "pubmed")
        THEN _fetch_from_pubmed(query, year_range, max_results,
                                "pubmed" \in raising)
        ELSE <<>>)

StoreNoPapers(d, paper_list, now) ==
    [db |-> d, papers |-> paper_list, ids |-> <<>>]

\* lines 91-92: add_paper on every record in turn; the dicts of the list are
\* the ones add_paper rewrites.
RECURSIVE StorePapers(_, _, _)
StorePapers(d, paper_list, now) ==
    IF paper_list = <<>> THEN [db |-> d, papers |-> <<>>, ids |-> <<>>]
    ELSE LET added == db_add_paper(d, Head(paper_list), now)
             rest == StorePapers(added.db, Tail(paper_list), now)
         IN  [db |-> rest.db,
              papers |-> <<added.paper_data>> \o rest.papers,
              ids |-> <<added.ret>> \o rest.ids]

\* list.sort(key=..., reverse=True): stable, descending.  The entries
\* sorted are [key, item] pairs, key the value the lambda returns.
RECURSIVE InsertDescending(_, _)
InsertDescending(x, sorted) ==
    IF sorted = <<>> THEN <<x>>
    ELSE IF Head(sorted).key >= x.key
    THEN <<Head(sorted)>> \o InsertDescending(x, Tail(sorted))
    ELSE <<x>> \o sorted
RECURSIVE SortDescending(_)
SortDescending(keyed) ==
    IF keyed = <<>> THEN <<>>
    ELSE InsertDescending(keyed[Len(keyed)],
                          SortDescending(SubSeq(keyed, 1, Len(keyed) - 1)))
\* list.sort(key=lambda x: x.get(field, 0), reverse=True)
SortedBy(list, field) ==
    LET keyed == [i \in 1..Len(list) |-> [key |-> Get(list[i], field, 0), item |-> list[i]]]
        sorted == SortDescending(keyed)
    IN  [i \in 1..Len(sorted) |-> sorted[i].item]

SortPapersSkipped(paper_list, sort_by) == paper_list

\* lines 99-102
SortPapers(paper_list, sort_by) ==
    IF sort_by = S_date THEN SortedBy(paper_list, "year")
    ELSE IF sort_by = S_citation_count
    THEN SortedBy(paper_list, "citation_count")
    ELSE paper_list

CacheNeverHit(cache, search_key) == FALSE

\* line 60: the cache lookup
CacheHit(cache, search_key) == search_key \in DOMAIN cache

\* the result of fetch_research_papers: the database and the cache
\* afterwards, the list returned, the adapters called and their records.
\* The list cached at line 95 is the list sorted in place at lines 99-102.
session_fetch_research_papers(d, cache, query, source, year_range, sort_by, max_results, now, raising) ==
    LET search_key == SearchKey(query, source, year_range, sort_by)
    IN  IF CacheHit(cache, search_key)
        THEN [db |-> d, cache |-> cache, ret |-> cache[search_key],
              hit |-> TRUE, called |-> <<>>, fetched |-> <<>>,
              stored |-> <<>>]
        ELSE
        LET sources_to_query == SourcesToQuery(source)
            fetched == QuerySources(sources_to_query, query, year_range,
                                    max_results, raising)
            stored == StorePapers(d, fetched, now)
            sorted == SortPapers(stored.papers, sort_by)
        IN  [db |-> stored.db,
             cache |-> Put(cache, search_key, sorted),
             ret |-> SliceTo(sorted, max_results),
             hit |-> FALSE, called |-> AdaptersCalled(sources_to_query),
             fetched |-> fetched, stored |-> stored.ids]

---------------------------------------------------------------------------
(* ResearchPaperManager.analyze_paper                                      *)

\* lines 306-308: the f-string, as the texts it interpolates
\*   "This paper by {by} ({year}) explores {explores}. The research ..."
SummaryText(authors, year, title) ==
    [by |-> Join(<<",", " ">>,
                 IF authors.type = "list" THEN SliceTo(authors.items, 3)
                 ELSE EachChar(SliceTo(authors.chars, 3))),
     year |-> year,
     explores |-> Lower(title)]

\* lines 310-355: the fixed parts of the template
TemplateKeyFindings ==
    << [title |-> "Novel methodology developed",
        description |-> "The authors developed a new approach ..."],
       [title |-> "Significant performance improvements",
        description |-> "Experimental results demonstrate substantial improvements ..."],
       [title |-> "Important theoretical contributions",
        description |-> "The paper makes notable theoretical contributions ..."] >>
TemplateMethodology ==
    [description |-> "The research employs a multi-stage approach ...",
     steps |-> << [title |-> "Data collection and preprocessing",
                   description |-> "Comprehensive dataset compilation ..."],
                  [title |-> "Model development and implementation",
                   description |-> "Design and implementation of novel computational models ..."],
                  [title |-> "Experimental evaluation",
                   description |-> "Extensive evaluation ..."] >>]
TemplateImplications ==
    [description |-> "This research has significant implications ...",
     research_gaps |-> << "Limited evaluation in real-world settings",
                          "Computational efficiency challenges for large-scale applications",
                          "Need for more diverse datasets to ensure generalizability" >>,
     future_directions |-> << "Extending the approach to related problem domains",
                              "Incorporating additional data sources to enhance performance",
                              "Developing more efficient implementations for resource-constrained environments" >>]

\* lines 299-356: the analysis generated from the dict add_paper left
GenerateAnalysis(paper) ==
    [summary |-> SummaryText(Get(paper, "authors", PyList(<<>>)),
                             IF "year" \in DOMAIN paper
                             THEN IntToStr(paper["year"]) ELSE <<>>,
                             paper["title"]),
     key_findings |-> TemplateKeyFindings,
     methodology |-> TemplateMethodology,
     implications |-> TemplateImplications]

\* line 289
ErrorAnalysis == [error |-> "Failed to process paper for analysis"]

\* lines 365-370
DegradedAnalysis ==
    [summary |-> "Unable to analyze paper due to an error.",
     key_findings |-> <<>>,
     methodology |-> [description |-> "Not available", steps |-> <<>>],
     implications |-> [description |-> "Not available", research_gaps |-> <<>>,
                       future_directions |-> <<>>]]

\* the result of analyze_paper: the database afterwards, the document
\* returned, and the caller's dict as the call leaves it
manager_analyze_paper(d, paper, now) ==
    LET added == db_add_paper(d, paper, now)
    IN  IF added.raised
        THEN [db |-> added.db, ret |-> DegradedAnalysis,
              paper |-> added.paper_data]
        ELSE IF added.ret = None
        THEN [db |-> added.db, ret |-> ErrorAnalysis,
              paper |-> added.paper_data]
        ELSE
        LET paper_db_id == The(added.ret)
            existing_analysis == db_get_paper_analysis(added.db, paper_db_id)
        IN  IF existing_analysis # None
            THEN [db |-> added.db, ret |-> The(existing_analysis),
                  paper |-> added.paper_data]
            ELSE
            LET analysis == GenerateAnalysis(added.paper_data)
                saved == db_save_paper_analysis(added.db, paper_db_id,
                                                analysis, now)
            IN  [db |-> saved.db, ret |-> analysis,
                 paper |-> added.paper_data]


---------------------------------------------------------------------------
(* chat_bot.py: ResearchChatBot.generate_response.  A response is kept as  *)
(* the template of the text and the values the f-string interpolates.      *)

\* sub in s, for two strings
InStr(sub, s) ==
    \E i \in 0..(Len(s) - Len(sub)) : SubSeq(s, i + 1, i + Len(sub)) = sub

\* lines 86, 111, 129, 150, 178: the tests of the if/elif chain
IsSummaryQuery(query_lower) ==
    InStr(<<"s", "u", "m", "m", "a", "r", "y">>, query_lower) \/ InStr(<<"s", "u", "m", "m", "a", "r", "i", "z", "e">>, query_lower)
IsFindingsQuery(query_lower) ==
    \/ InStr(<<"f", "i", "n", "d", "i", "n", "g", "s">>, query_lower)
    \/ InStr(<<"r", "e", "s", "u", "l", "t", "s">>, query_lower)
    \/ InStr(<<"d", "i", "s", "c", "o", "v", "e", "r">>, query_lower)
IsMethodologyQuery(query_lower) ==
    \/ InStr(<<"m", "e", "t", "h", "o", "d">>, query_lower)
    \/ InStr(<<"a", "p", "p", "r", "o", "a", "c", "h">>, query_lower)
    \/ InStr(<<"h", "o", "w", " ", "d", "i", "d", " ", "t", "h", "e", "y">>, query_lower)
IsImplicationsQuery(query_lower) ==
    \E term \in {<<"i", "m", "p", "l", "i", "c", "a", "t", "i", "o", "n", "s">>, <<"i", "m", "p", "a", "c", "t">>, <<"f", "u", "t", "u", "r", "e">>, <<"n", "e", "x", "t", " ", "s", "t", "e", "p", "s">>} :
        InStr(term, query_lower)
IsCompareQuery(query_lower) ==
    \/ InStr(<<"c", "o", "m", "p", "a", "r", "e">>, query_lower)
    \/ InStr(<<"d", "i", "f", "f", "e", "r", "e", "n", "c", "e">>, query_lower)
    \/ InStr(<<"s", "i", "m", "i", "l", "a", "r">>, query_lower)

BranchLastMatch(query_lower) ==
    IF IsCompareQuery(query_lower) THEN "compare"
    ELSE IF IsImplicationsQuery(query_lower) THEN "implications"
    ELSE IF IsMethodologyQuery(query_lower) THEN "methodology"
    ELSE IF IsFindingsQuery(query_lower) THEN "findings"
    ELSE IF IsSummaryQuery(query_lower) THEN "summary"
    ELSE "default"

\* lines 86-184: the branch of the if/elif chain a query enters
Branch(query_lower) ==
    IF IsSummaryQuery(query_lower) THEN "summary"
    ELSE IF IsFindingsQuery(query_lower) THEN "findings"
    ELSE IF IsMethodologyQuery(query_lower) THEN "methodology"
    ELSE IF IsImplicationsQuery(query_lower) THEN "implications"
    ELSE IF IsCompareQuery(query_lower) THEN "compare"
    ELSE "default"

\* ', '.join(authors) of a list of names or, of a str, of its characters
JoinAuthors(authors) ==
    Join(<<",", " ">>,
         IF authors.type = "list" THEN authors.items
         ELSE EachChar(authors.chars))

\* enumerate(items): "{i+1}. **{title}**: {description}" per item
Numbered(items) ==
    [i \in 1..Len(items) |->
        [number |-> i, title |-> items[i].title,
         description |-> items[i].description]]

\* the outcome of a branch: the text returned, or an exception
Returns(response) == [raised |-> FALSE, response |-> response]
Raises(exception) == [raised |-> TRUE, exception |-> exception]

\* lines 87-99
SummaryResponse(context) ==
    IF Len(context) > 0
    THEN LET paper == context[1]
         IN  Returns([template |-> "summary",
                      title |-> Get(paper, "title", <<"t", "h", "e", " ", "s", "e", "l", "e", "c", "t", "e", "d", " ", "p", "a", "p", "e", "r">>),
                      by |-> JoinAuthors(Get(paper, "authors",
                                             PyList(<<<<"t", "h", "e", " ", "a", "u", "t", "h", "o", "r", "s">>>>))),
                      investigates |-> Lower(Get(paper, "title", <<"t", "h", "e", " ", "t", "o", "p", "i", "c">>))])
    ELSE Returns([template |-> "summary_no_paper"])

FindingsResponseUnguarded(context) ==
    IF Len(context) < 2 THEN Raises("IndexError")
    ELSE Returns([template |-> "findings_generic",
                  title |-> Get(context[1], "title", <<"s", "e", "l", "e", "c", "t", "e", "d">>)])

\* lines 112-126
FindingsResponse(context) ==
    IF Len(context) > 0
    THEN LET paper == context[1]
         IN  IF Len(context) < 2 THEN Raises("IndexError")
             ELSE IF "key_findings" \in DOMAIN context[2]
             THEN LET findings == context[2]["key_findings"]
                  IN  IF \E i \in 1..Len(findings) :
                             ~ {"title", "description"} \subseteq DOMAIN findings[i]
                      THEN Raises("KeyError")
                      ELSE Returns([template |-> "findings_listed",
                                    title |-> Get(paper, "title", <<"t", "h", "e", " ", "p", "a", "p", "e", "r">>),
                                    findings |-> Numbered(findings)])
             ELSE Returns([template |-> "findings_generic",
                           title |-> Get(paper, "title", <<"s", "e", "l", "e", "c", "t", "e", "d">>)])
    ELSE Returns([template |-> "findings_no_paper"])

\* lines 130-147
MethodologyResponse(context) ==
    IF Len(context) > 0
    THEN LET paper == context[1]
         IN  IF Len(context) < 2 THEN Raises("IndexError")
             ELSE IF "methodology" \in DOMAIN context[2]
             THEN LET methodology == context[2]["methodology"]
                  IN  IF "description" \notin DOMAIN methodology
                      THEN Raises("KeyError")
                      ELSE Returns([template |-> "methodology_described",
                                    title |-> Get(paper, "title", <<"t", "h", "e", " ", "p", "a", "p", "e", "r">>),
                                    description |-> methodology["description"],
                                    steps |-> IF "steps" \in DOMAIN methodology
                                              THEN Numbered(methodology["steps"])
                                              ELSE <<>>])
             ELSE Returns([template |-> "methodology_generic"])
    ELSE Returns([template |-> "methodology_no_paper"])

\* lines 151-175
ImplicationsResponse(context) ==
    IF Len(context) > 0
    THEN LET paper == context[1]
         IN  IF Len(context) < 2 THEN Raises("IndexError")
             ELSE IF "implications" \in DOMAIN context[2]
             THEN LET implications == context[2]["implications"]
                  IN  IF ~ {"description", "research_gaps", "future_directions"}
                               \subseteq DOMAIN implications
                      THEN Raises("KeyError")
                      ELSE Returns([template |-> "implications_listed",
                                    title |-> Get(paper, "title", <<"t", "h", "e", " ", "p", "a", "p", "e", "r">>),
                                    description |-> implications["description"],
                                    research_gaps |-> implications["research_gaps"],
                                    future_directions |->
                                        implications["future_directions"]])
             ELSE Returns([template |-> "implications_generic",
                           extends |-> Lower(Get(paper, "title", <<"t", "h", "e", " ", "s", "u", "b", "j", "e", "c", "t">>))])
    ELSE Returns([template |-> "implications_no_paper"])

\* lines 179-181
CompareResponse == Returns([template |-> "compare_unsupported"])

\* line 188: the words random.choice draws from
Adjectives == {"innovative", "comprehensive", "novel"}

\* lines 185-198
DefaultResponse(context, user_query, adjective) ==
    IF Len(context) > 0
    THEN LET paper == context[1]
         IN  Returns([template |-> "default",
                      about |-> user_query,
                      title |-> Get(paper, "title", <<"t", "h", "e", " ", "s", "e", "l", "e", "c", "t", "e", "d", " ", "p", "a", "p", "e", "r">>),
                      adjective |-> adjective,
                      approach_to |-> Lower(Get(paper, "title",
                                                <<"t", "h", "e", " ", "r", "e", "s", "e", "a", "r", "c", "h", " ", "t", "o", "p", "i", "c">>))])
    ELSE Returns([template |-> "default_no_paper", about |-> user_query])

\* line 202
Apology == [template |-> "apology"]

\* lines 63-67 and 102-106: a record of the transcript
Turn(role, content, now) ==
    [role |-> role, content |-> content, timestamp |-> now]

\* line 79: the characters of the query the history title keeps
ChatTitleQueryLen == 50

\* lines 71-80: the title and description of the history entry
ChatHistoryTitle(user_query) ==
    <<"C", "h", "a", "t", ":", " ">> \o SliceTo(user_query, ChatTitleQueryLen) \o <<".", ".", ".">>
ChatHistoryDescription(context) ==
    LET paper_context ==
            IF Len(context) > 0
            THEN Some(Get(context[1], "title", <<"U", "n", "k", "n", "o", "w", "n", " ", "p", "a", "p", "e", "r">>))
            ELSE None
    IN  <<"Q", "u", "e", "s", "t", "i", "o", "n", " ", "a", "b", "o", "u", "t", " ">>
        \o (IF paper_context # None /\ The(paper_context) # <<>>
            THEN The(paper_context) ELSE <<"r", "e", "s", "e", "a", "r", "c", "h">>)

HistoryNeverSaved(user_id) == FALSE

\* line 70: if user_id, for None or an int
HistorySaved(user_id) == user_id # None /\ The(user_id) # 0

\* lines 101-106: the branches that append the assistant turn before they
\* return
AppendsAssistantTurn(branch) == branch = "summary"

\* the result of generate_response: the database and the transcript
\* afterwards, the text returned, the branch entered (none when the
\* exception came first) and whether the except clause was reached
bot_generate_response(d, history, context, user_query, user_id, now, adjective) ==
    LET query_lower == Lower(user_query)
        asked == Append(history, Turn("user", user_query, now))
        saved == IF HistorySaved(user_id)
                 THEN db_add_history_item(d, The(user_id), "chat",
                          ChatHistoryTitle(user_query),
                          ChatHistoryDescription(context), now)
                 ELSE [db |-> d, ret |-> None, raised |-> FALSE]
    IN  IF saved.raised
        THEN [db |-> d, chat_history |-> asked, ret |-> Apology,
              branch |-> None, excepted |-> TRUE]
        ELSE
        LET branch == Branch(query_lower)
            outcome ==
                IF branch = "summary" THEN SummaryResponse(context)
                ELSE IF branch = "findings"
                THEN FindingsResponse(context)
                ELSE IF branch = "methodology"
                THEN MethodologyResponse(context)
                ELSE IF branch = "implications"
                THEN ImplicationsResponse(context)
                ELSE IF branch = "compare" THEN CompareResponse
                ELSE DefaultResponse(context, user_query, adjective)
        IN  IF outcome.raised
            THEN [db |-> saved.db, chat_history |-> asked, ret |-> Apology,
                  branch |-> Some(branch), excepted |-> TRUE]
            ELSE [db |-> saved.db,
                  chat_history |->
                      IF AppendsAssistantTurn(branch)
                      THEN Append(asked, Turn("assistant", outcome.response, now))
                      ELSE asked,
                  ret |-> outcome.response,
                  branch |-> Some(branch), excepted |-> FALSE]
---------------------------------------------------------------------------
(* The state machine.  A call runs at the current reading of the clock;    *)
(* tick is the passing of a second between two calls.                      *)

\* the browser sessions that share the database file, each with its own
\* Database connection (get_database) and none of them inside analyze_paper
Sessions == {"s1", "s2"}
IdleSession == [pc |-> "idle", reserved |-> FALSE]

Init ==
    /\ db = EmptyDb
    /\ paper_search_cache = <<>>
    /\ clock = 0
    /\ chat_history = <<>>
    /\ research_context = <<>>
    /\ research_history = <<>>
    /\ current_user = None
    /\ analyzing = [session \in Sessions |-> IdleSession]
    /\ last = [op |-> "init"]

tick ==
    /\ clock < MaxClock
    /\ clock' = clock + 1
    /\ last' = [op |-> "tick"]
    /\ UNCHANGED <<db, paper_search_cache, chat_history, research_context,
                     research_history, current_user, analyzing>>

create_user(username, email, password_hash) ==
    LET r == db_create_user(db, username, email, password_hash, clock)
    IN  /\ r.db.sqlite_sequence["users"] <= MaxUsers
        /\ db' = r.db
        /\ last' = [op |-> "create_user", username |-> username,
                    email |-> email, ret |-> r.ret]
        /\ UNCHANGED <<paper_search_cache, clock, chat_history, research_context,
                     research_history, current_user, analyzing>>

add_paper(paper_data) ==
    LET r == db_add_paper(db, paper_data, clock)
    IN  /\ db' = r.db
        /\ last' = [op |-> "add_paper", paper_data |-> paper_data,
                    ret |-> r.ret, raised |-> r.raised,
                    after |-> r.paper_data]
        /\ UNCHANGED <<paper_search_cache, clock, chat_history, research_context,
                     research_history, current_user, analyzing>>

save_paper_for_user(user_id, paper_data) ==
    LET r == db_save_paper_for_user(db, user_id, paper_data, clock)
    IN  /\ r.db.sqlite_sequence["user_papers"] <= MaxSavedRows
        /\ r.db.sqlite_sequence["papers"] <= MaxPapers
        /\ db' = r.db
        /\ last' = [op |-> "save_paper_for_user", user_id |-> user_id,
                    paper_data |-> paper_data, ret |-> r.ret,
                    raised |-> r.raised]
        /\ UNCHANGED <<paper_search_cache, clock, chat_history, research_context,
                     research_history, current_user, analyzing>>

remove_saved_paper(user_id, paper_id) ==
    LET r == db_remove_saved_paper(db, user_id, paper_id)
    IN  /\ db' = r.db
        /\ last' = [op |-> "remove_saved_paper", user_id |-> user_id,
                    paper_id |-> paper_id, ret |-> r.ret]
        /\ UNCHANGED <<paper_search_cache, clock, chat_history, research_context,
                     research_history, current_user, analyzing>>

save_paper_analysis(paper_id, analysis_data) ==
    LET r == db_save_paper_analysis(db, paper_id, analysis_data, clock)
    IN  /\ r.db.sqlite_sequence["paper_analysis"] <= MaxAnalysisRows
        /\ db' = r.db
        /\ last' = [op |-> "save_paper_analysis", paper_id |-> paper_id,
                    analysis_data |-> analysis_data, ret |-> r.ret]
        /\ UNCHANGED <<paper_search_cache, clock, chat_history, research_context,
                     research_history, current_user, analyzing>>

get_paper_analysis(paper_id) ==
    /\ last' = [op |-> "get_paper_analysis", paper_id |-> paper_id,
                ret |-> db_get_paper_analysis(db, paper_id)]
    /\ UNCHANGED <<db, paper_search_cache, clock, chat_history, research_context,
                     research_history, current_user, analyzing>>

analyze_paper(paper) ==
    LET r == manager_analyze_paper(db, paper, clock)
    IN  /\ r.db.sqlite_sequence["paper_analysis"] <= MaxAnalysisRows
        /\ db' = r.db
        /\ last' = [op |-> "analyze_paper", paper |-> paper,
                    ret |-> r.ret, after |-> r.paper]
        /\ UNCHANGED <<paper_search_cache, clock, chat_history, research_context,
                     research_history, current_user, analyzing>>

fetch_research_papers(query, source, year_range, sort_by, max_results, raising) ==
    LET r == session_fetch_research_papers(db, paper_search_cache, query,
                 source, year_range, sort_by, max_results, clock, raising)
    IN  /\ Cardinality(DOMAIN r.cache) <= MaxCacheEntries
        /\ db' = r.db
        /\ paper_search_cache' = r.cache
        /\ last' = [op |-> "fetch_research_papers", query |-> query,
                    source |-> source, year_range |-> year_range,
                    sort_by |-> sort_by, max_results |-> max_results,
                    raising |-> raising,
                    ret |-> r.ret, hit |-> r.hit, called |-> r.called,
                    fetched |-> r.fetched, stored |-> r.stored]
        /\ UNCHANGED <<clock, chat_history, research_context,
                     research_history, current_user, analyzing>>

update_user(user_id, updates) ==
    LET r == db_update_user(db, user_id, updates)
    IN  /\ db' = r.db
        /\ last' = [op |-> "update_user", user_id |-> user_id,
                    updates |-> updates, ret |-> r.ret]
        /\ UNCHANGED <<paper_search_cache, clock, chat_history, research_context,
                     research_history, current_user, analyzing>>

update_last_login(user_id) ==
    LET r == db_update_last_login(db, user_id, clock)
    IN  /\ db' = r.db
        /\ last' = [op |-> "update_last_login", user_id |-> user_id,
                    ret |-> r.ret]
        /\ UNCHANGED <<paper_search_cache, clock, chat_history, research_context,
                     research_history, current_user, analyzing>>

update_research_context(context) ==
    /\ research_context' = context
    /\ last' = [op |-> "update_research_context"]
    /\ UNCHANGED <<db, paper_search_cache, clock, chat_history,
                     research_history, current_user, analyzing>>

\* the questions asked so far in the session
IsUserTurn(turn) == turn.role = "user"

generate_response(user_query, user_id, adjective) ==
    LET r == bot_generate_response(db, chat_history, research_context,
                                   user_query, user_id, clock, adjective)
    IN  /\ Len(SelectSeq(chat_history, IsUserTurn)) < MaxTurns
        /\ db' = r.db
        /\ chat_history' = r.chat_history
        /\ last' = [op |-> "generate_response", user_query |-> user_query,
                    user_id |-> user_id, ret |-> r.ret, branch |-> r.branch,
                    excepted |-> r.excepted]
        /\ UNCHANGED <<paper_search_cache, clock, research_context,
                     research_history, current_user, analyzing>>

---------------------------------------------------------------------------
(* The arguments the calls are made with.                                  *)

NewUsers ==
    {[username |-> "alice", email |-> "alice@example.org", password_hash |-> "h1"]}
UserIds == 1..2
PaperIds == 1..2

\* the first arXiv sample record, as a search returns it
PaperA == _fetch_from_arxiv(<<>>, <<1900, 2023>>, 50, FALSE)[1]
\* a record that carries the external key of PaperA itself
PaperC ==
    [paper_id |-> DerivedPaperId(PaperA), title |-> <<"U", "n", "t", "i", "t", "l", "e", "d">>,
     authors |-> PyList(<<>>), year |-> 1999, source |-> SourcePubmed]
\* the second PubMed sample record
PaperD == _fetch_from_pubmed(<<>>, <<1900, 2023>>, 50, FALSE)[2]
InputPapers == {PaperA, PaperC, PaperD}
AnalyzedPapers == {PaperA, PaperD}

\* two analysis documents a caller of save_paper_analysis passes
DocA == GenerateAnalysis(PaperC)
DocB ==
    [summary |-> [by |-> <<>>, year |-> <<>>, explores |-> <<"n", "o", "t", "h", "i", "n", "g">>],
     key_findings |-> << [title |-> "A finding", description |-> "..."] >>,
     methodology |-> [description |-> "Survey", steps |-> <<>>],
     implications |-> [description |-> "None", research_gaps |-> <<>>,
                       future_directions |-> <<>>]]
InputDocs == {DocA, DocB}

Query_ml ==
    <<"m", "l">>
Filter_PUBMED ==
    <<"P", "U", "B", "M", "E", "D">>
Filter_GoogleScholar ==
    <<"G", "o", "o", "g", "l", "e", " ", "S", "c", "h", "o", "l", "a", "r">>
Queries == {Query_ml}
SourceFilters ==
    {None, Some(SourceSemanticScholar), Some(SourceArxiv),
     Some(Filter_PUBMED), Some(Filter_GoogleScholar)}
YearRanges == {<<1900, 2023>>}
SortModes == {S_relevance, S_date, S_citation_count}
MaxResultsValues == {1, 50}

\* the accounts of the profile pages: two new ones, one under a taken
\* email and one under a taken username
Accounts ==
    {[username |-> "alice", email |-> "alice@example.org", password_hash |-> "h1"],
     [username |-> "bob", email |-> "bob@example.org", password_hash |-> "h2"],
     [username |-> "carol", email |-> "alice@example.org", password_hash |-> "h3"],
     [username |-> "alice", email |-> "al@example.org", password_hash |-> "h4"]}
\* the two accounts of the readers of a shared library
Readers == {user \in Accounts : user.username \in {"alice", "bob"}
                                /\ user.password_hash \in {"h1", "h2"}}
SavedPapers == {PaperA, PaperD}
\* the dicts update_user is called with
NoUpdates == [key \in {} |-> ""]
UserUpdates ==
    {NoUpdates,
     [id |-> 9, join_date |-> 9],
     [email |-> "bob@example.org"],
     [username |-> "alice", last_login |-> Some(9)],
     [password_hash |-> "h9", preferences |-> "dark"]}

\* the questions of a chat, and what the bot holds as context
Query_summary_findings ==
    <<"S", "u", "m", "m", "a", "r", "i", "z", "e", " ", "t", "h", "e", " ",
      "f", "i", "n", "d", "i", "n", "g", "s">>
Query_results_method ==
    <<"R", "E", "S", "U", "L", "T", "S", " ", "o", "f", " ", "t", "h", "e",
      " ", "m", "e", "t", "h", "o", "d">>
Query_approach_impact ==
    <<"T", "h", "e", "i", "r", " ", "a", "p", "p", "r", "o", "a", "c", "h",
      " ", "a", "n", "d", " ", "i", "t", "s", " ", "i", "m", "p", "a", "c",
      "t">>
Query_future_difference ==
    <<"F", "u", "t", "u", "r", "e", " ", "w", "o", "r", "k", ":", " ", "w",
      "h", "a", "t", " ", "d", "i", "f", "f", "e", "r", "e", "n", "c", "e",
      "?">>
Query_similar ==
    <<"A", "n", "y", " ", "s", "i", "m", "i", "l", "a", "r", " ", "p", "a",
      "p", "e", "r", "s", "?">>
Query_hello ==
    <<"H", "e", "l", "l", "o">>
ChatQueries ==
    {Query_summary_findings, Query_results_method, Query_approach_impact,
     Query_future_difference, Query_similar, Query_hello}
ChatUserIds == {None, Some(1)}
Contexts ==
    {<<>>, <<PaperA>>, <<PaperA, GenerateAnalysis(PaperA)>>,
     <<PaperA, ErrorAnalysis>>}

\* searches made while at most one source adapter fails
AdapterFailures == {{}, {"semantic_scholar"}, {"arxiv"}, {"pubmed"}}
OutageFilters == {None, Some(SourceArxiv), Some(Filter_PUBMED)}
OutageSortModes == {S_relevance, S_date}

---------------------------------------------------------------------------
(* Specifications.                                                         *)

\* the Store: users, papers and saved papers
Next ==
    \/ \E user \in NewUsers :
           create_user(user.username, user.email, user.password_hash)
    \/ \E paper_data \in InputPapers : add_paper(paper_data)
    \/ \E user_id \in UserIds, paper_data \in InputPapers :
           save_paper_for_user(user_id, paper_data)
    \/ \E user_id \in UserIds, paper_id \in PaperIds :
           remove_saved_paper(user_id, paper_id)
    \/ tick

Spec == Init /\ [][Next]_vars

\* the Store's analyses and the analysis generator
AnalysisNext ==
    \/ \E paper_data \in AnalyzedPapers : add_paper(paper_data)
    \/ \E paper_id \in PaperIds, analysis_data \in InputDocs :
           save_paper_analysis(paper_id, analysis_data)
    \/ \E paper_id \in PaperIds : get_paper_analysis(paper_id)
    \/ \E paper \in AnalyzedPapers : analyze_paper(paper)

AnalysisSpec == Init /\ [][AnalysisNext]_vars

\* the search of one session
SearchNext ==
    \/ tick
    \/ \E query \in Queries, source \in SourceFilters, year_range \in YearRanges,
       sort_by \in SortModes, max_results \in MaxResultsValues :
        fetch_research_papers(query, source, year_range, sort_by, max_results, {})

SearchSpec == Init /\ [][SearchNext]_vars

\* the search of one session while a source may be failing
OutageNext ==
    \/ tick
    \/ \E query \in Queries, source \in OutageFilters, sort_by \in OutageSortModes,
          raising \in AdapterFailures :
        fetch_research_papers(query, source, <<1900, 2023>>, sort_by, 50, raising)

OutageSpec == Init /\ [][OutageNext]_vars


\* the accounts: sign-up, profile update, login
UserNext ==
    \/ \E user \in Accounts :
           create_user(user.username, user.email, user.password_hash)
    \/ \E user_id \in UserIds, updates \in UserUpdates :
           update_user(user_id, updates)
    \/ \E user_id \in UserIds : update_last_login(user_id)

UserSpec == Init /\ [][UserNext]_vars

\* the chat of one session
ChatNext ==
    \/ \E user \in NewUsers :
           create_user(user.username, user.email, user.password_hash)
    \/ \E context \in Contexts : update_research_context(context)
    \/ \E user_query \in ChatQueries, user_id \in ChatUserIds,
          adjective \in Adjectives :
           generate_response(user_query, user_id, adjective)

ChatSpec == Init /\ [][ChatNext]_vars

\* the saved papers of two users, and the analyses of the papers
LibraryNext ==
    \/ \E user \in Readers :
           create_user(user.username, user.email, user.password_hash)
    \/ \E user_id \in UserIds, paper_data \in SavedPapers :
           save_paper_for_user(user_id, paper_data)
    \/ \E paper_id \in PaperIds, analysis_data \in {DocA} :
           save_paper_analysis(paper_id, analysis_data)
    \/ \E user_id \in UserIds, paper_id \in PaperIds :
           remove_saved_paper(user_id, paper_id)

LibrarySpec == Init /\ [][LibraryNext]_vars
---------------------------------------------------------------------------
(* Properties.                                                             *)

\* the external paper key a record is filed under
ExternalKey(paper_data) ==
    IF "paper_id" \in DOMAIN paper_data THEN paper_data["paper_id"]
    ELSE paper_data["source"] \o <<"_">> \o SliceTo(paper_data["title"], 50)

\* the positions of the papers rows that carry an external key
RowsWithKey(d, key) == {i \in 1..Len(d.papers) : d.papers[i].paper_id = key}

\* the positions of the user_papers rows of one (user, paper) pair
SavedRows(d, user_id, paper_id) ==
    {i \in 1..Len(d.user_papers) :
        d.user_papers[i].user_id = user_id /\ d.user_papers[i].paper_id = paper_id}

UserExists(d, user_id) == \E i \in 1..Len(d.users) : d.users[i].id = user_id

Min(a, b) == IF a < b THEN a ELSE b

\* C1: add_paper with a record whose external key is already in the papers
\* table leaves the table as it is (no new row, no field of the existing
\* row changed) and returns the id of the row first stored under the key.
C1_FirstWriteWins ==
    [][(/\ last'.op = "add_paper"
        /\ RowsWithKey(db, ExternalKey(last'.paper_data)) # {})
       => LET rows == RowsWithKey(db, ExternalKey(last'.paper_data))
              first == CHOOSE i \in rows : \A j \in rows : i <= j
          IN  /\ db'.papers = db.papers
              /\ last'.ret = Some(db.papers[first].id)]_vars

\* an add_paper that met the row of a record with another title
C1_CollisionSeen ==
    /\ last.op = "add_paper"
    /\ last.ret # None
    /\ \E i \in 1..Len(db.papers) :
           /\ db.papers[i].id = The(last.ret)
           /\ db.papers[i].title # last.paper_data["title"]
           /\ db.papers[i].date_added < clock

\* C2: no (user, paper) pair ever has two association rows, and every
\* save_paper_for_user for an existing user returns True and leaves exactly
\* one association row of the user and the paper.
C2_SaveIsIdempotent ==
    /\ \A u \in UserIds : \A p \in 1..Len(db.papers) :
           Cardinality(SavedRows(db, u, db.papers[p].id)) <= 1
    /\ (last.op = "save_paper_for_user" /\ UserExists(db, last.user_id))
       => /\ last.ret = TRUE
          /\ \E p \in RowsWithKey(db, ExternalKey(last.paper_data)) :
                 Cardinality(SavedRows(db, last.user_id, db.papers[p].id)) = 1

\* a save_paper_for_user that found the association stored earlier
C2_SavedAgain ==
    /\ last.op = "save_paper_for_user"
    /\ UserExists(db, last.user_id)
    /\ \E p \in RowsWithKey(db, ExternalKey(last.paper_data)) :
       \E i \in SavedRows(db, last.user_id, db.papers[p].id) :
           db.user_papers[i].date_saved < clock

\* C3: the paper_analysis table holds at most one row for each paper id.
C3_OneAnalysisPerPaper ==
    \A i, j \in 1..Len(db.paper_analysis) :
        db.paper_analysis[i].paper_id = db.paper_analysis[j].paper_id => i = j

\* C4: save_paper_analysis(p, d2) for a paper p that has an analysis
\* returns True, adds no row, and get_paper_analysis(p) then returns the
\* summary, key findings, methodology and implications of d2.
C4_SecondSaveOverwrites ==
    [][(/\ last'.op = "save_paper_analysis"
        /\ ~ PaperForeignKeyViolated(db, last'.paper_id)
        /\ db_get_paper_analysis(db, last'.paper_id) # None)
       => /\ last'.ret = TRUE
          /\ Len(db'.paper_analysis) = Len(db.paper_analysis)
          /\ LET got == The(db_get_paper_analysis(db', last'.paper_id))
                 d2 == last'.analysis_data
             IN  /\ got.summary = d2.summary
                 /\ got.key_findings = d2.key_findings
                 /\ got.methodology = d2.methodology
                 /\ got.implications = d2.implications]_vars

\* C5: an analyze_paper that follows an analyze_paper of the same paper
\* returns the document the first one returned (the same fields with the
\* same values), and get_paper_analysis of the paper's id returns that
\* document.
C5_AnalyzeTwiceIdentical ==
    [][(/\ last'.op = "analyze_paper"
        /\ last.op = "analyze_paper"
        /\ last'.paper = last.paper)
       => /\ last'.ret = last.ret
          /\ \E p \in RowsWithKey(db', ExternalKey(last'.paper)) :
                 db_get_paper_analysis(db', db'.papers[p].id) = Some(last.ret)]_vars

\* C6: every search returns exactly min(max_results, number of merged
\* records) records, on a cache miss and on a cache hit.
C6_AtMostMaxResults ==
    last.op = "fetch_research_papers"
    => LET merged == paper_search_cache[SearchKey(last.query, last.source,
                                                  last.year_range, last.sort_by)]
       IN  Len(last.ret) = Min(last.max_results, Len(merged))

AllSourceRecords ==
    _fetch_from_semantic_scholar(<<>>, <<>>, 0, FALSE)
        \o _fetch_from_arxiv(<<>>, <<>>, 0, FALSE)
        \o _fetch_from_pubmed(<<>>, <<>>, 0, FALSE)
PositionInSources(paper) ==
    CHOOSE i \in 1..Len(AllSourceRecords) :
        /\ AllSourceRecords[i].title = paper["title"]
        /\ AllSourceRecords[i].source = paper["source"]
InSourceOrder(list) ==
    \A i, j \in 1..Len(list) :
        i < j => PositionInSources(list[i]) < PositionInSources(list[j])
NonIncreasing(keys) ==
    \A i \in 1..(Len(keys) - 1) : keys[i] >= keys[i + 1]

\* C8: the list a search returns, on a miss and on a hit, is in
\* non-increasing order of year when sort_by is date, of citation count
\* when sort_by is citation_count, and in source-concatenation order for
\* any other sort_by.
C8_ReturnedListIsSorted ==
    last.op = "fetch_research_papers"
    => IF last.sort_by = S_date
       THEN NonIncreasing([i \in 1..Len(last.ret) |-> last.ret[i]["year"]])
       ELSE IF last.sort_by = S_citation_count
       THEN NonIncreasing([i \in 1..Len(last.ret) |->
                              last.ret[i]["citation_count"]])
       ELSE InSourceOrder(last.ret)

\* a cache hit that returned several records sorted by date
C8_SortedHitSeen ==
    /\ last.op = "fetch_research_papers"
    /\ last.hit
    /\ last.sort_by = S_date
    /\ Len(last.ret) > 2
    /\ ~ InSourceOrder(last.ret)

\* the adapters expected for a source filter, in the fixed order
ExpectedAdapters(source) ==
    IF source = None
    THEN <<"_fetch_from_semantic_scholar", "_fetch_from_arxiv",
           "_fetch_from_pubmed">>
    ELSE IF Lower(The(source)) = Lower(SourceSemanticScholar)
    THEN <<"_fetch_from_semantic_scholar">>
    ELSE IF Lower(The(source)) = Lower(SourceArxiv)
    THEN <<"_fetch_from_arxiv">>
    ELSE IF Lower(The(source)) = Lower(SourcePubmed)
    THEN <<"_fetch_from_pubmed">>
    ELSE <<>>
RecordsOf(adapter) ==
    IF adapter = "_fetch_from_semantic_scholar"
    THEN _fetch_from_semantic_scholar(<<>>, <<>>, 0, FALSE)
    ELSE IF adapter = "_fetch_from_arxiv" THEN _fetch_from_arxiv(<<>>, <<>>, 0, FALSE)
    ELSE _fetch_from_pubmed(<<>>, <<>>, 0, FALSE)
RECURSIVE Concatenated(_)
Concatenated(adapters) ==
    IF adapters = <<>> THEN <<>>
    ELSE RecordsOf(Head(adapters)) \o Concatenated(Tail(adapters))

\* C9: on a cache miss the adapters called are all three for no filter,
\* the one adapter the filter names (compared without case) and none for
\* any other filter; the merged list is the concatenation of their lists in
\* that order, none dropped as a duplicate, and empty when none is called.
C9_SourceRouting ==
    (last.op = "fetch_research_papers" /\ ~ last.hit)
    => LET merged == paper_search_cache[SearchKey(last.query, last.source,
                                                  last.year_range, last.sort_by)]
       IN  /\ last.called = ExpectedAdapters(last.source)
           /\ last.fetched = Concatenated(ExpectedAdapters(last.source))
           /\ Len(merged) = Len(last.fetched)
           /\ last.called = <<>> => last.ret = <<>>

\* a miss with the filter PUBMED, which called the PubMed adapter alone
C9_OneAdapterSeen ==
    /\ last.op = "fetch_research_papers"
    /\ ~ last.hit
    /\ last.source = Some(Filter_PUBMED)
    /\ last.called = <<"_fetch_from_pubmed">>
    /\ Len(last.fetched) = 2

\* C10: after a search that missed the cache, every record the adapters
\* produced has a papers row under the key derived from its source and
\* title, the records cut off by max_results included.
C10_SearchPersistsAll ==
    (last.op = "fetch_research_papers" /\ ~ last.hit)
    => \A i \in 1..Len(last.fetched) :
           \E r \in 1..Len(db.papers) :
               db.papers[r].paper_id =
                   last.fetched[i].source \o <<"_">>
                       \o SliceTo(last.fetched[i].title, 50)

\* a miss that returned fewer records than it stored
C10_TruncatedMissSeen ==
    /\ last.op = "fetch_research_papers"
    /\ ~ last.hit
    /\ Len(last.ret) < Len(last.fetched)
    /\ Len(db.papers) >= Len(last.fetched)


---------------------------------------------------------------------------
(* Searches while a source adapter fails.                                  *)

\* the source an adapter queries
SourceOfAdapter(adapter) ==
    IF adapter = "_fetch_from_semantic_scholar" THEN "semantic_scholar"
    ELSE IF adapter = "_fetch_from_arxiv" THEN "arxiv"
    ELSE "pubmed"

\* the records of the adapters of a list that did not fail, in order
RECURSIVE RecordsOfSurvivors(_, _)
RecordsOfSurvivors(adapters, raising) ==
    IF adapters = <<>> THEN <<>>
    ELSE (IF SourceOfAdapter(Head(adapters)) \in raising THEN <<>>
          ELSE RecordsOf(Head(adapters)))
         \o RecordsOfSurvivors(Tail(adapters), raising)

\* C11: when a source adapter fails during a search that missed the cache,
\* the adapter contributes no record, and the search completes and returns
\* the records of the adapters that did not fail: every adapter of the
\* filter is still called, the merged list is the concatenation of the
\* lists of those that did not fail, and the list returned holds exactly
\* their records.
C11_FailedAdapterYieldsNothing ==
    (last.op = "fetch_research_papers" /\ ~ last.hit)
    => LET survivors == RecordsOfSurvivors(ExpectedAdapters(last.source),
                                           last.raising)
       IN  /\ last.called = ExpectedAdapters(last.source)
           /\ last.fetched = survivors
           /\ Len(last.ret) = Min(last.max_results, Len(survivors))
           /\ \A i \in 1..Len(last.ret) :
                  \E j \in 1..Len(survivors) : last.ret[i].url = survivors[j].url
           /\ last.max_results >= Len(survivors)
              => \A j \in 1..Len(survivors) :
                     \E i \in 1..Len(last.ret) : last.ret[i].url = survivors[j].url

\* a search of all sources during which the arXiv adapter failed, and which
\* returned the four records of the other two
C11_ArxivFailedSeen ==
    /\ last.op = "fetch_research_papers"
    /\ ~ last.hit
    /\ last.source = None
    /\ last.raising = {"arxiv"}
    /\ Len(last.ret) = 4
    /\ \A i \in 1..4 : last.ret[i].source # SourceArxiv

---------------------------------------------------------------------------
(* The chat responder.                                                     *)

\* the rules of the classifier in their order of priority
IntentRules ==
    << [intent |-> "summary", keywords |-> {<<"s", "u", "m", "m", "a", "r", "y">>, <<"s", "u", "m", "m", "a", "r", "i", "z", "e">>}],
       [intent |-> "findings",
        keywords |-> {<<"f", "i", "n", "d", "i", "n", "g", "s">>, <<"r", "e", "s", "u", "l", "t", "s">>, <<"d", "i", "s", "c", "o", "v", "e", "r">>}],
       [intent |-> "methodology",
        keywords |-> {<<"m", "e", "t", "h", "o", "d">>, <<"a", "p", "p", "r", "o", "a", "c", "h">>, <<"h", "o", "w", " ", "d", "i", "d", " ", "t", "h", "e", "y">>}],
       [intent |-> "implications",
        keywords |-> {<<"i", "m", "p", "l", "i", "c", "a", "t", "i", "o", "n", "s">>, <<"i", "m", "p", "a", "c", "t">>, <<"f", "u", "t", "u", "r", "e">>, <<"n", "e", "x", "t", " ", "s", "t", "e", "p", "s">>}],
       [intent |-> "compare",
        keywords |-> {<<"c", "o", "m", "p", "a", "r", "e">>, <<"d", "i", "f", "f", "e", "r", "e", "n", "c", "e">>, <<"s", "i", "m", "i", "l", "a", "r">>}] >>

\* the rules a query holds a keyword of
MatchingRules(user_query) ==
    {i \in 1..Len(IntentRules) :
        \E keyword \in IntentRules[i].keywords :
            InStr(keyword, Lower(user_query))}

\* the intent of the matching rule of highest priority
ExpectedIntent(user_query) ==
    LET matching == MatchingRules(user_query)
    IN  IF matching = {} THEN "default"
        ELSE IntentRules[CHOOSE i \in matching : \A j \in matching : i <= j].intent

\* the responses of an intent
TemplatesOf(intent) ==
    IF intent = "summary" THEN {"summary", "summary_no_paper"}
    ELSE IF intent = "findings"
    THEN {"findings_listed", "findings_generic", "findings_no_paper"}
    ELSE IF intent = "methodology"
    THEN {"methodology_described", "methodology_generic", "methodology_no_paper"}
    ELSE IF intent = "implications"
    THEN {"implications_listed", "implications_generic", "implications_no_paper"}
    ELSE IF intent = "compare" THEN {"compare_unsupported"}
    ELSE {"default", "default_no_paper"}

\* the response of an intent when no paper is in context
NoPaperTemplate(intent) ==
    IF intent = "summary" THEN "summary_no_paper"
    ELSE IF intent = "findings" THEN "findings_no_paper"
    ELSE IF intent = "methodology" THEN "methodology_no_paper"
    ELSE IF intent = "implications" THEN "implications_no_paper"
    ELSE IF intent = "compare" THEN "compare_unsupported"
    ELSE "default_no_paper"

\* C12: generate_response classifies the lower-cased query by the first
\* matching rule in the order summary, findings, methodology, implications,
\* compare, default: the branch entered is the one of the matching rule of
\* highest priority, and the response returned is one of that rule's and of
\* no rule below it (the fixed apology when the call met an exception).
C12_FirstMatchingRuleWins ==
    last.op = "generate_response"
    => LET intent == ExpectedIntent(last.user_query)
       IN  /\ last.branch \in {None, Some(intent)}
           /\ IF last.excepted THEN last.ret = Apology
              ELSE /\ last.branch = Some(intent)
                   /\ last.ret.template \in TemplatesOf(intent)

\* a query with the keywords of the findings and of the methodology rule,
\* asked about a paper with its analysis and answered with the findings
C12_SeveralRulesMatchedSeen ==
    /\ last.op = "generate_response"
    /\ MatchingRules(last.user_query) = {2, 3}
    /\ ~ last.excepted
    /\ last.ret.template = "findings_listed"

\* C13: every call of generate_response, on each of the six branches and
\* with or without a paper in context, appends to the transcript exactly
\* one user turn holding the query and after it exactly one assistant turn
\* holding the response returned.
C13_BothTurnsAppended ==
    [][last'.op = "generate_response"
       => /\ Len(chat_history') = Len(chat_history) + 2
          /\ SubSeq(chat_history', 1, Len(chat_history)) = chat_history
          /\ chat_history'[Len(chat_history) + 1].role = "user"
          /\ chat_history'[Len(chat_history) + 1].content = last'.user_query
          /\ chat_history'[Len(chat_history) + 2].role = "assistant"
          /\ chat_history'[Len(chat_history) + 2].content = last'.ret]_vars

\* C14: when an exception occurs inside generate_response (the history
\* write fails, or the context holds a paper but no analysis), the call
\* returns the fixed apology without raising and the transcript receives
\* the apology as an assistant turn after the user turn.
C14_ApologyInTranscript ==
    [][(last'.op = "generate_response" /\ last'.excepted)
       => /\ last'.ret = Apology
          /\ Len(chat_history') = Len(chat_history) + 2
          /\ chat_history'[Len(chat_history) + 1].role = "user"
          /\ chat_history'[Len(chat_history) + 1].content = last'.user_query
          /\ chat_history'[Len(chat_history) + 2].role = "assistant"
          /\ chat_history'[Len(chat_history) + 2].content = Apology]_vars

\* C15: a call of generate_response with the user_id of an existing user
\* appends exactly one row of activity type chat for that user to
\* research_history, on every branch; a call without a user_id leaves
\* research_history as it is.
C15_ChatSavedToHistory ==
    [][last'.op = "generate_response"
       => IF last'.user_id = None
          THEN db'.research_history = db.research_history
          ELSE UserExists(db, The(last'.user_id))
               => /\ Len(db'.research_history) = Len(db.research_history) + 1
                  /\ SubSeq(db'.research_history, 1, Len(db.research_history))
                         = db.research_history
                  /\ LET row == db'.research_history[Len(db'.research_history)]
                     IN  /\ row.user_id = The(last'.user_id)
                         /\ row.activity_type = "chat"]_vars

\* a second question of a logged-in user, on a branch that met an
\* exception, with both questions in research_history
C15_SavedOnFailedBranchSeen ==
    /\ last.op = "generate_response"
    /\ last.user_id = Some(1)
    /\ last.excepted
    /\ last.branch = Some("methodology")
    /\ Len(db.research_history) = 2
    /\ \A i \in 1..2 : db.research_history[i].user_id = 1

\* C16: a call of generate_response with no paper in context returns a
\* text and never raises; a query classified as summary, findings,
\* methodology or implications gets the branch's "no paper in context"
\* answer, which names no paper title (the fixed apology, which names none
\* either, when the history write for an unknown user_id failed).
C16_NoPaperAnswer ==
    (last.op = "generate_response" /\ research_context = <<>>)
    => /\ "template" \in DOMAIN last.ret
       /\ "title" \notin DOMAIN last.ret
       /\ IF last.user_id = None \/ UserExists(db, The(last.user_id))
          THEN /\ ~ last.excepted
               /\ last.ret.template =
                      NoPaperTemplate(ExpectedIntent(last.user_query))
          ELSE last.ret = Apology

\* a question about findings asked with no paper in context
C16_FindingsWithoutPaperSeen ==
    /\ last.op = "generate_response"
    /\ research_context = <<>>
    /\ ExpectedIntent(last.user_query) = "findings"
    /\ last.ret.template = "findings_no_paper"

---------------------------------------------------------------------------
(* Accounts.                                                               *)

\* the positions of the users rows with a user id
RowsOfUser(d, user_id) == {i \in 1..Len(d.users) : d.users[i].id = user_id}

\* C17: create_user with a username or an email equal to that of an
\* existing user returns None and leaves the users table as it is: no row
\* added, no row changed.
C17_DuplicateUserRejected ==
    [][(/\ last'.op = "create_user"
        /\ \E i \in 1..Len(db.users) :
               \/ db.users[i].username = last'.username
               \/ db.users[i].email = last'.email)
       => /\ last'.ret = None
          /\ db'.users = db.users]_vars

\* a create_user under a new username and the email of an existing user,
\* which returned None
C17_TakenEmailSeen ==
    /\ last.op = "create_user"
    /\ last.ret = None
    /\ \A i \in 1..Len(db.users) : db.users[i].username # last.username
    /\ \E i \in 1..Len(db.users) : db.users[i].email = last.email

\* C18: in every state create_user and update_user calls lead to, no two
\* distinct rows of users have the same username and no two the same email.
C18_UsernameAndEmailUnique ==
    \A i, j \in 1..Len(db.users) :
        i # j => /\ db.users[i].username # db.users[j].username
                 /\ db.users[i].email # db.users[j].email
                 /\ db.users[i].id # db.users[j].id

\* an update_user of an existing user to the email of another user, which
\* returned False
C18_UpdateToTakenEmailSeen ==
    /\ last.op = "update_user"
    /\ ~ last.ret
    /\ "email" \in DOMAIN last.updates
    /\ \E i, j \in 1..Len(db.users) :
           /\ db.users[i].id = last.user_id
           /\ j # i
           /\ db.users[j].email = last.updates["email"]

\* whether update_user is to refuse: no allow-listed key, no such user, or
\* a username or email of another user
UpdateRefused(d, user_id, updates) ==
    \/ (DOMAIN updates) \cap {"username", "email", "password_hash", "preferences"} = {}
    \/ RowsOfUser(d, user_id) = {}
    \/ \E i \in 1..Len(d.users) :
           /\ d.users[i].id # user_id
           /\ \/ "username" \in DOMAIN updates
                 /\ d.users[i].username = updates["username"]
              \/ "email" \in DOMAIN updates
                 /\ d.users[i].email = updates["email"]

\* C19: update_user changes only those of username, email, password_hash
\* and preferences that appear in the updates, to the values given, and
\* never the id, join_date or last_login of a user nor any field of another
\* user; it returns False and leaves the database as it is when the updates
\* hold no allow-listed key, when the new username or email is another
\* user's, or when no user has the id.
C19_UpdateTouchesAllowedColumnsOnly ==
    [][last'.op = "update_user"
       => LET updates == last'.updates
              user_id == last'.user_id
              allowed == (DOMAIN updates)
                         \cap {"username", "email", "password_hash", "preferences"}
          IN  /\ Len(db'.users) = Len(db.users)
              /\ [db' EXCEPT !.users = db.users] = db
              /\ \A i \in 1..Len(db.users) :
                     /\ DOMAIN db'.users[i] = DOMAIN db.users[i]
                     /\ \A column \in DOMAIN db.users[i] :
                            IF db.users[i].id = user_id /\ column \in allowed
                            THEN db'.users[i][column]
                                     \in {updates[column], db.users[i][column]}
                            ELSE db'.users[i][column] = db.users[i][column]
              /\ IF UpdateRefused(db, user_id, updates)
                 THEN ~ last'.ret /\ db' = db
                 ELSE /\ last'.ret
                      /\ \A i \in RowsOfUser(db, user_id) :
                             \A column \in allowed :
                                 db'.users[i][column] = updates[column]]_vars

\* an update_user that renamed a user who had logged in, called with a
\* last_login among the updates
C19_AllowedColumnChangedSeen ==
    /\ last.op = "update_user"
    /\ last.ret
    /\ "last_login" \in DOMAIN last.updates
    /\ Len(db.users) = 2
    /\ \E i \in RowsOfUser(db, last.user_id) :
           /\ db.users[i].username = last.updates["username"]
           /\ db.users[i].last_login = Some(0)

---------------------------------------------------------------------------
(* Saved papers.                                                           *)

\* C20: remove_saved_paper(u, p) returns False and leaves the database as
\* it is when user_papers holds no row of (u, p); when it holds one the call
\* returns True and removes exactly that row, leaving the papers row, the
\* paper's analysis and the rows of every other user as they are.
C20_RemoveExactlyTheAssociation ==
    [][last'.op = "remove_saved_paper"
       => LET rows == SavedRows(db, last'.user_id, last'.paper_id)
          IN  IF rows = {}
              THEN ~ last'.ret /\ db' = db
              ELSE /\ last'.ret
                   /\ Cardinality(rows) = 1
                   /\ LET removed == CHOOSE i \in rows : TRUE
                      IN  db'.user_papers =
                              SubSeq(db.user_papers, 1, removed - 1)
                              \o SubSeq(db.user_papers, removed + 1,
                                        Len(db.user_papers))
                   /\ [db' EXCEPT !.user_papers = db.user_papers] = db]_vars

\* a removal that returned True while another user keeps the same paper
\* saved and the paper has an analysis
C20_OtherUserKeepsPaperSeen ==
    /\ last.op = "remove_saved_paper"
    /\ last.ret
    /\ \E i \in 1..Len(db.user_papers) :
           /\ db.user_papers[i].paper_id = last.paper_id
           /\ db.user_papers[i].user_id # last.user_id
    /\ \E i \in 1..Len(db.paper_analysis) :
           db.paper_analysis[i].paper_id = last.paper_id
    /\ \E i \in 1..Len(db.papers) : db.papers[i].id = last.paper_id

---------------------------------------------------------------------------
(* Database.get_user_history, get_user_saved_papers                        *)

\* the ways of listing n rows
Orderings(n) ==
    {p \in [1..n -> 1..n] : \A i, j \in 1..n : i # j => p[i] # p[j]}

\* ORDER BY column DESC: SQL fixes the order of two rows only where their
\* columns differ, so the result is any listing with the column descending
OrderByDesc(rows, column) ==
    {[i \in 1..Len(rows) |-> rows[p[i]]] :
        p \in {q \in Orderings(Len(rows)) :
                 \A i \in 1..(Len(rows) - 1) :
                     rows[q[i]][column] >= rows[q[i + 1]][column]}}

\* LIMIT n: the first n rows; a negative n is no limit
Limit(rows, n) ==
    IF n < 0 \/ n > Len(rows) THEN rows ELSE SubSeq(rows, 1, n)

\* the results get_user_history can return
db_get_user_history(d, user_id, limit) ==
    LET Where(row) == row.user_id = user_id
    IN  {Limit(rows, limit) :
            rows \in OrderByDesc(SelectSeq(d.research_history, Where), "date")}

\* json.loads of the text json.dumps made of a list of strings: names are
\* the strings read so far, name the one being read (None between two)
RECURSIVE ParseStrList(_, _, _)
ParseStrList(text, names, name) ==
    IF text = <<>> THEN names
    ELSE IF Head(text) = "\""
    THEN IF name = None
         THEN ParseStrList(Tail(text), names, Some(<<>>))
         ELSE ParseStrList(Tail(text), Append(names, The(name)), None)
    ELSE IF name = None
    THEN ParseStrList(Tail(text), names, None)
    ELSE ParseStrList(Tail(text), names, Some(The(name) \o <<Head(text)>>))
JsonLoadsStrList(text) == ParseStrList(text, <<>>, None)

\* lines 262-267: papers JOIN user_papers ON p.id = up.paper_id, the rows
\* of one user, each as p.* with up.date_saved and up.notes
SavedPaperRows(d, user_id) ==
    LET Where(row) == row.user_id = user_id
        saved == SelectSeq(d.user_papers, Where)
        PaperOf(up) == CHOOSE p \in {d.papers[i] : i \in 1..Len(d.papers)} :
                           p.id = up.paper_id
    IN  [i \in 1..Len(saved) |->
            [k \in (DOMAIN PaperOf(saved[i])) \cup {"date_saved", "notes"} |->
                IF k \in {"date_saved", "notes"} THEN saved[i][k]
                ELSE PaperOf(saved[i])[k]]]

\* lines 270-276: authors and metadata loaded from their JSON text
LoadedPaper(row) ==
    [row EXCEPT !["authors"] = JsonLoadsStrList(@),
                !["metadata"] = JsonLoads(@)]

\* the results get_user_saved_papers can return
db_get_user_saved_papers(d, user_id) ==
    {[i \in 1..Len(rows) |-> LoadedPaper(rows[i])] :
        rows \in OrderByDesc(SavedPaperRows(d, user_id), "date_saved")}

---------------------------------------------------------------------------
(* The history and the saved papers of the users, written and read back.   *)

add_history_item(user_id, activity_type, title, description) ==
    LET r == db_add_history_item(db, user_id, activity_type, title,
                                 description, clock)
    IN  /\ r.db.sqlite_sequence["research_history"] <= MaxHistoryRows
        /\ db' = r.db
        /\ last' = [op |-> "add_history_item", user_id |-> user_id,
                    title |-> title, ret |-> r.ret, raised |-> r.raised]
        /\ UNCHANGED <<paper_search_cache, clock, chat_history, research_context,
                     research_history, current_user, analyzing>>

get_user_history(user_id, limit) ==
    /\ \E ret \in db_get_user_history(db, user_id, limit) :
           last' = [op |-> "get_user_history", user_id |-> user_id,
                    limit |-> limit, ret |-> ret]
    /\ UNCHANGED <<db, paper_search_cache, clock, chat_history, research_context,
                 research_history, current_user, analyzing>>

get_user_saved_papers(user_id) ==
    /\ \E ret \in db_get_user_saved_papers(db, user_id) :
           last' = [op |-> "get_user_saved_papers", user_id |-> user_id,
                    ret |-> ret]
    /\ UNCHANGED <<db, paper_search_cache, clock, chat_history, research_context,
                 research_history, current_user, analyzing>>

\* the activities a page records, and the limits a page reads with
ActivityTitles == {"Search: ml"}
HistoryLimits == {1, 50}

ActivityNext ==
    \/ \E user \in NewUsers :
           create_user(user.username, user.email, user.password_hash)
    \/ \E title \in ActivityTitles : add_history_item(1, "search", title, "")
    \/ \E paper_data \in SavedPapers : save_paper_for_user(1, paper_data)
    \/ \E user_id \in UserIds, limit \in HistoryLimits :
           get_user_history(user_id, limit)
    \/ \E user_id \in UserIds : get_user_saved_papers(user_id)
    \/ tick

ActivitySpec == Init /\ [][ActivityNext]_vars

\* the rows of a table in the order they were added, latest first
LatestFirst(rows) == [i \in 1..Len(rows) |-> rows[Len(rows) + 1 - i]]

HistoryOf(user_id) ==
    LET Where(row) == row.user_id = user_id
    IN  SelectSeq(db.research_history, Where)

\* the saved papers of a user as get_user_saved_papers lists them, in the
\* order the user saved them
SavedOf(user_id) ==
    LET rows == SavedPaperRows(db, user_id)
    IN  [i \in 1..Len(rows) |-> LoadedPaper(rows[i])]

\* C21: get_user_history(u, limit) returns the latest limit entries of u,
\* latest first (so only entries of u, and the empty list for a user
\* without entries), and get_user_saved_papers(u) returns the saved papers
\* of u, latest saved first, also among entries of one clock second
C21_LatestFirst ==
    /\ last.op = "get_user_history" =>
           last.ret = Limit(LatestFirst(HistoryOf(last.user_id)), last.limit)
    /\ last.op = "get_user_saved_papers" =>
           last.ret = LatestFirst(SavedOf(last.user_id))

\* C22: a write of the Store takes its full effect or none: a
\* save_paper_for_user that inserts a papers row for its record also leaves
\* the association of the user and that row
C22_SaveIsAtomic ==
    [][(/\ last'.op = "save_paper_for_user"
        /\ Len(db'.papers) > Len(db.papers))
       => SavedRows(db', last'.user_id, db'.papers[Len(db'.papers)].id) # {}]_vars

\* C25: after a save_paper_for_user that returned True, for any user id,
\* the association of the user and the paper is in user_papers and
\* get_user_saved_papers of the user lists the paper
C25_TrueMeansSaved ==
    (last.op = "save_paper_for_user" /\ last.ret = TRUE)
    => \E p \in RowsWithKey(db, ExternalKey(last.paper_data)) :
           /\ SavedRows(db, last.user_id, db.papers[p].id) # {}
           /\ \A saved \in db_get_user_saved_papers(db, last.user_id) :
                  \E i \in 1..Len(saved) : saved[i].id = db.papers[p].id

---------------------------------------------------------------------------
(* analyze_paper, Store call by Store call, in sessions that share the     *)
(* database file.  Each session has its own connection, makes one          *)
(* analyze_paper call and starts it with no transaction open.  A           *)
(* connection takes the RESERVED lock of the file for an INSERT and keeps  *)
(* it until it commits; an INSERT that ends in IntegrityError is not       *)
(* committed, so its connection keeps the lock.                            *)

\* another connection holds the RESERVED lock: an INSERT of this session
\* raises OperationalError (database is locked) once its timeout is over
Locked(sessions, session) ==
    \E other \in Sessions \ {session} : sessions[other].reserved

AnalyzeExceptNothing(step, reserved) ==
    [pc |-> "done", reserved |-> reserved, ret |-> None, raised |-> TRUE,
     failed |-> step, upserted |-> FALSE]
\* lines 363-370: an exception of any step ends the call with the degraded
\* document
AnalyzeExcept(step, reserved) ==
    [pc |-> "done", reserved |-> reserved, ret |-> Some(DegradedAnalysis),
     raised |-> FALSE, failed |-> step, upserted |-> FALSE]

\* lines 286-289: the session and the database after self.db.add_paper(paper)
analyze_step_add_paper(d, sessions, session, paper, now) ==
    LET added == db_add_paper(d, paper, now)
    IN  IF added.raised \/ Locked(sessions, session)
        THEN [db |-> d, session |-> AnalyzeExcept("add_paper", FALSE)]
        ELSE IF added.ret = None
        THEN [db |-> added.db,
              session |-> [pc |-> "done", reserved |-> added.db = d,
                           ret |-> Some(ErrorAnalysis), raised |-> FALSE,
                           failed |-> "", upserted |-> FALSE]]
        ELSE [db |-> added.db,
              session |-> [pc |-> "get", reserved |-> added.db = d,
                           paper |-> added.paper_data,
                           paper_db_id |-> The(added.ret)]]

\* lines 292-295: the session after self.db.get_paper_analysis(paper_db_id)
analyze_step_get_paper_analysis(d, running) ==
    LET existing_analysis == db_get_paper_analysis(d, running.paper_db_id)
    IN  IF existing_analysis # None
        THEN [pc |-> "done", reserved |-> running.reserved,
              ret |-> existing_analysis, raised |-> FALSE, failed |-> "",
              upserted |-> TRUE, paper_db_id |-> running.paper_db_id,
              generated |-> FALSE]
        ELSE [running EXCEPT !.pc = "save"]

\* lines 299-361: the session and the database after the analysis is
\* generated and self.db.save_paper_analysis(paper_db_id, analysis)
analyze_step_save_paper_analysis(d, sessions, session, now) ==
    LET running == sessions[session]
        analysis == GenerateAnalysis(running.paper)
        saved == db_save_paper_analysis(d, running.paper_db_id, analysis, now)
    IN  IF Locked(sessions, session)
        THEN [db |-> d,
              session |-> AnalyzeExcept("save_paper_analysis", running.reserved)]
        ELSE [db |-> saved.db,
              session |-> [pc |-> "done", reserved |-> FALSE,
                           ret |-> Some(analysis), raised |-> FALSE,
                           failed |-> "", upserted |-> TRUE,
                           paper_db_id |-> running.paper_db_id,
                           generated |-> TRUE]]

analyze_add_paper(session, paper) ==
    LET r == analyze_step_add_paper(db, analyzing, session, paper, clock)
    IN  /\ analyzing[session].pc = "idle"
        /\ db' = r.db
        /\ analyzing' = [analyzing EXCEPT ![session] = r.session]
        /\ last' = [op |-> "analyze_paper: add_paper", session |-> session,
                    paper |-> paper]
        /\ UNCHANGED <<paper_search_cache, clock, chat_history, research_context,
                     research_history, current_user>>

analyze_get_paper_analysis(session) ==
    /\ analyzing[session].pc = "get"
    /\ analyzing' = [analyzing EXCEPT ![session] =
                        analyze_step_get_paper_analysis(db, @)]
    /\ last' = [op |-> "analyze_paper: get_paper_analysis", session |-> session]
    /\ UNCHANGED <<db, paper_search_cache, clock, chat_history, research_context,
                 research_history, current_user>>

analyze_save_paper_analysis(session) ==
    LET r == analyze_step_save_paper_analysis(db, analyzing, session, clock)
    IN  /\ analyzing[session].pc = "save"
        /\ db' = r.db
        /\ analyzing' = [analyzing EXCEPT ![session] = r.session]
        /\ last' = [op |-> "analyze_paper: save_paper_analysis",
                    session |-> session]
        /\ UNCHANGED <<paper_search_cache, clock, chat_history, research_context,
                     research_history, current_user>>

\* the records the sessions analyze: two search results, a record without
\* a title and a record whose authors are None
PaperNoTitle == [source |-> SourceArxiv, authors |-> PyList(<<>>)]
PaperNoAuthors ==
    [title |-> <<"U", "n", "t", "i", "t", "l", "e", "d">>, source |-> SourceArxiv, authors |-> PyNone]
SessionPapers == {PaperA, PaperD, PaperNoTitle, PaperNoAuthors}

ConcurrentNext ==
    \/ \E session \in Sessions, paper \in SessionPapers :
           analyze_add_paper(session, paper)
    \/ \E session \in Sessions : analyze_get_paper_analysis(session)
    \/ \E session \in Sessions : analyze_save_paper_analysis(session)
    \/ tick

ConcurrentSpec == Init /\ [][ConcurrentNext]_vars

\* C23: analyze_paper never raises; it returns the error document when
\* add_paper yields no id, and the degraded document (no findings,
\* methodology and implications 'Not available') when a step fails: a
\* record without title or source, a failing Store read or write
C23_AnalyzeNeverRaises ==
    \A session \in Sessions :
        analyzing[session].pc = "done" =>
            /\ ~ analyzing[session].raised
            /\ analyzing[session].ret # None
            /\ (analyzing[session].failed = "" /\ ~ analyzing[session].upserted)
               => analyzing[session].ret = Some(ErrorAnalysis)
            /\ analyzing[session].failed # ""
               => /\ analyzing[session].ret = Some(DegradedAnalysis)
                  /\ The(analyzing[session].ret).key_findings = <<>>
                  /\ The(analyzing[session].ret).methodology.description
                         = "Not available"
                  /\ The(analyzing[session].ret).implications.description
                         = "Not available"

\* a call ended by the error document, one ended by a record without
\* title, and one ended by a write that found the database locked
C23_EveryFailureSeen ==
    /\ analyzing["s1"].pc = "done"
    /\ analyzing["s1"].failed = "save_paper_analysis"
    /\ The(analyzing["s1"].ret).key_findings = <<>>
    /\ analyzing["s2"].pc = "done"
    /\ analyzing["s2"].failed = "" /\ ~ analyzing["s2"].upserted
    /\ "error" \in DOMAIN The(analyzing["s2"].ret)

\* C28: when two sessions have each run analyze_paper on the same paper,
\* not analyzed before, their Store calls interleaved in any order, the
\* paper has exactly one paper_analysis row
C28_OneRowAfterRace ==
    (/\ \A session \in Sessions :
            analyzing[session].pc = "done" /\ analyzing[session].upserted
     /\ analyzing["s1"].paper_db_id = analyzing["s2"].paper_db_id)
    => LET Where(row) == row.paper_id = analyzing["s1"].paper_db_id
       IN  Len(SelectSeq(db.paper_analysis, Where)) = 1

---------------------------------------------------------------------------
(* The foreign keys of the schema.  The program has no call that deletes   *)
(* a users or a papers row; delete_user and delete_paper are the DELETE    *)
(* statements on those tables, run on a connection of the program          *)
(* (PRAGMA foreign_keys = ON).                                             *)

NoCascadeFromUser(d, user_id) == d
\* lines 67 and 82: ON DELETE CASCADE of user_papers.user_id and
\* research_history.user_id
CascadeFromUser(d, user_id) ==
    LET Keep(row) == row.user_id # user_id
    IN  [d EXCEPT !.user_papers = SelectSeq(@, Keep),
                  !.research_history = SelectSeq(@, Keep)]

\* lines 68 and 96: ON DELETE CASCADE of user_papers.paper_id and
\* paper_analysis.paper_id
CascadeFromPaper(d, paper_id) ==
    LET Keep(row) == row.paper_id # paper_id
    IN  [d EXCEPT !.user_papers = SelectSeq(@, Keep),
                  !.paper_analysis = SelectSeq(@, Keep)]

\* DELETE FROM users WHERE id = ?
db_delete_user(d, user_id) ==
    LET Keep(row) == row.id # user_id
    IN  [CascadeFromUser(d, user_id) EXCEPT !.users = SelectSeq(@, Keep)]

\* DELETE FROM papers WHERE id = ?
db_delete_paper(d, paper_id) ==
    LET Keep(row) == row.id # paper_id
    IN  [CascadeFromPaper(d, paper_id) EXCEPT !.papers = SelectSeq(@, Keep)]

delete_user(user_id) ==
    /\ db' = db_delete_user(db, user_id)
    /\ last' = [op |-> "delete_user", user_id |-> user_id,
                saved |-> Len(SavedOf(user_id)),
                history |-> Len(HistoryOf(user_id))]
    /\ UNCHANGED <<paper_search_cache, clock, chat_history, research_context,
                 research_history, current_user, analyzing>>

delete_paper(paper_id) ==
    /\ db' = db_delete_paper(db, paper_id)
    /\ last' = [op |-> "delete_paper", paper_id |-> paper_id,
                saved |-> Cardinality(UNION {SavedRows(db, user_id, paper_id) :
                                                user_id \in UserIds}),
                analyzed |-> db_get_paper_analysis(db, paper_id) # None]
    /\ UNCHANGED <<paper_search_cache, clock, chat_history, research_context,
                 research_history, current_user, analyzing>>

CascadeNext ==
    \/ \E user \in NewUsers :
           create_user(user.username, user.email, user.password_hash)
    \/ \E user_id \in UserIds : save_paper_for_user(user_id, PaperA)
    \/ \E user_id \in UserIds, title \in ActivityTitles :
           add_history_item(user_id, "search", title, "")
    \/ \E paper_id \in PaperIds : save_paper_analysis(paper_id, DocA)
    \/ \E user_id \in UserIds : delete_user(user_id)
    \/ \E paper_id \in PaperIds : delete_paper(paper_id)

CascadeSpec == Init /\ [][CascadeNext]_vars

PaperExists(d, paper_id) == \E i \in 1..Len(d.papers) : d.papers[i].id = paper_id

\* C24: no saved-paper association, history entry or analysis refers to a
\* user or a paper that is not in the Store, whatever users and papers
\* were deleted: the delete of a user removed the associations and the
\* history of the user, the delete of a paper its associations and analyses
C24_NoDanglingReference ==
    /\ \A i \in 1..Len(db.user_papers) :
           /\ UserExists(db, db.user_papers[i].user_id)
           /\ PaperExists(db, db.user_papers[i].paper_id)
    /\ \A i \in 1..Len(db.research_history) :
           UserExists(db, db.research_history[i].user_id)
    /\ \A i \in 1..Len(db.paper_analysis) :
           PaperExists(db, db.paper_analysis[i].paper_id)

\* the delete of a paper that was saved and analyzed, after the delete of
\* a user with a saved paper and a history entry
C24_BothCascadesSeen ==
    /\ last.op = "delete_paper" /\ last.saved > 0 /\ last.analyzed
    /\ db.sqlite_sequence["users"] > Len(db.users)
    /\ db.sqlite_sequence["research_history"] > Len(db.research_history)
    /\ db.sqlite_sequence["user_papers"] > last.saved

---------------------------------------------------------------------------
(* add_paper on records without an external key.                           *)

\* two records of one source whose titles agree in their first 50
\* characters
LongTitle1 ==
    <<"D", "e", "e", "p", " ", "L", "e", "a", "r", "n", "i", "n", "g", " ",
      "f", "o", "r", " ", "P", "r", "o", "t", "e", "i", "n", " ", "S", "t",
      "r", "u", "c", "t", "u", "r", "e", " ", "P", "r", "e", "d", "i", "c",
      "t", "i", "o", "n", ":", " ", "A", " ", "S", "u", "r", "v", "e", "y",
      " ", "o", "f", " ", "M", "e", "t", "h", "o", "d", "s">>
LongTitle2 ==
    <<"D", "e", "e", "p", " ", "L", "e", "a", "r", "n", "i", "n", "g", " ",
      "f", "o", "r", " ", "P", "r", "o", "t", "e", "i", "n", " ", "S", "t",
      "r", "u", "c", "t", "u", "r", "e", " ", "P", "r", "e", "d", "i", "c",
      "t", "i", "o", "n", ":", " ", "A", " ", "B", "e", "n", "c", "h", "m",
      "a", "r", "k">>
PaperLong1 ==
    [id |-> "arxiv7", title |-> LongTitle1, authors |-> PyList(<<<<"A", ".", " ", "A", "u", "t", "h", "o", "r">>>>),
     year |-> 2021, source |-> SourceArxiv]
PaperLong2 ==
    [id |-> "arxiv8", title |-> LongTitle2, authors |-> PyList(<<<<"B", ".", " ", "A", "u", "t", "h", "o", "r">>>>),
     year |-> 2022, source |-> SourceArxiv]
KeyPapers == {PaperA, PaperD, PaperLong1, PaperLong2}

KeyNext ==
    \/ \E paper_data \in KeyPapers : add_paper(paper_data)
    \/ tick

KeySpec == Init /\ [][KeyNext]_vars

\* C26: add_paper files a record without an external key under a papers
\* row of the same source and the same title: records that differ in
\* source or title get different ids and are both stored
C26_KeyIsSourceAndTitle ==
    (/\ last.op = "add_paper"
     /\ "paper_id" \notin DOMAIN last.paper_data
     /\ ~ last.raised)
    => /\ last.ret # None
       /\ \E i \in 1..Len(db.papers) :
              /\ db.papers[i].id = The(last.ret)
              /\ db.papers[i].source = last.paper_data["source"]
              /\ db.papers[i].title = last.paper_data["title"]

\* C27: add_paper leaves the dict it is called with as it was: authors is
\* still the list of names, keys such as id are still there and no key
\* was added, so a second add_paper of the dict binds the same data
C27_RecordUnchanged ==
    last.op = "add_paper" =>
        /\ DOMAIN last.after = DOMAIN last.paper_data
        /\ last.after["authors"].type = "list"
        /\ last.after = last.paper_data

---------------------------------------------------------------------------
(* utils.add_to_history, and the login and logout of the sidebar.          *)

\* utils.py line 29: the entries the session history keeps
HistoryCap == 100

\* strftime('%Y-%m-%d %H:%M') of the clock: its minute
MinuteOf(now) == now \div 60

\* lines 19-24: the entry of the session history
Activity(activity_type, title, description, now) ==
    [type |-> activity_type, title |-> title, description |-> description,
     date |-> MinuteOf(now)]

\* s[-n:] of a list
SliceFromEnd(s, n) == SubSeq(s, IF Len(s) > n THEN Len(s) - n + 1 ELSE 1, Len(s))

CapHistoryOldest(history) ==
    IF Len(history) > HistoryCap THEN SubSeq(history, 1, HistoryCap) ELSE history
\* lines 29-30: the history keeps its last HistoryCap entries
CapHistory(history) ==
    IF Len(history) > HistoryCap THEN SliceFromEnd(history, HistoryCap)
    ELSE history

\* the result of add_to_history: the session history and the database
\* afterwards, and whether add_history_item raised
session_add_to_history(d, history, user, activity_type, title, description, now) ==
    LET appended == Append(history, Activity(activity_type, title, description, now))
        kept == CapHistory(appended)
    IN  IF user # None
        THEN LET r == db_add_history_item(d, The(user).id, activity_type,
                                          title, description, now)
             IN  [db |-> r.db, research_history |-> kept, raised |-> r.raised,
                  capped |-> Len(appended) > HistoryCap]
        ELSE [db |-> d, research_history |-> kept, raised |-> FALSE,
              capped |-> Len(appended) > HistoryCap]

\* hashlib.sha256(password).hexdigest(), on the passwords of the accounts
\* of the model
_hash_password(password) ==
    IF password = "pw1" THEN "h1" ELSE IF password = "pw2" THEN "h2" ELSE "h0"

\* user_profile.py lines 58-72: the profile returned without the password
\* hash
Profile(user) ==
    [id |-> user.id, username |-> user.username, email |-> user.email,
     join_date |-> user.join_date]

\* the result of authenticate_user
manager_authenticate_user(d, username, password, now) ==
    LET user == get_user_by_username(d, username)
    IN  IF user # None /\ The(user).password_hash = _hash_password(password)
        THEN [db |-> db_update_last_login(d, The(user).id, now).db,
              ret |-> Some(Profile(The(user)))]
        ELSE [db |-> d, ret |-> None]

add_to_history(activity_type, title, description) ==
    LET r == session_add_to_history(db, research_history, current_user,
                 activity_type, title, description, clock)
    IN  /\ (current_user # None)
           => r.db.sqlite_sequence["research_history"] <= MaxHistoryRows
        /\ db' = r.db
        /\ research_history' = r.research_history
        /\ last' = [op |-> "add_to_history", activity_type |-> activity_type,
                    title |-> title, description |-> description,
                    raised |-> r.raised, capped |-> r.capped]
        /\ UNCHANGED <<paper_search_cache, clock, chat_history, research_context,
                     current_user, analyzing>>

\* research_assistant.py lines 291-299: the login form
login(username, password) ==
    LET r == manager_authenticate_user(db, username, password, clock)
    IN  /\ current_user = None
        /\ db' = r.db
        /\ current_user' = r.ret
        /\ research_history' = IF r.ret # None THEN <<>> ELSE research_history
        /\ last' = [op |-> "login", username |-> username, ret |-> r.ret]
        /\ UNCHANGED <<paper_search_cache, clock, chat_history, research_context,
                     analyzing>>

\* research_assistant.py lines 266-273: the logout button
logout ==
    /\ current_user # None
    /\ current_user' = None
    /\ chat_history' = <<>>
    /\ research_history' = <<>>
    /\ last' = [op |-> "logout"]
    /\ UNCHANGED <<db, paper_search_cache, clock, research_context, analyzing>>

\* the activities of a session: it opens with a search or a chat and goes
\* on with chats
NextActivities(history) ==
    IF history = <<>> THEN {"search", "chat"} ELSE {"chat"}
Passwords == {"pw1", "pw2"}

HistoryNext ==
    \/ \E user \in NewUsers :
           create_user(user.username, user.email, user.password_hash)
    \/ \E user \in NewUsers, password \in Passwords :
           login(user.username, password)
    \/ logout
    \/ \E activity_type \in NextActivities(research_history) :
           add_to_history(activity_type, "An activity", "")

HistorySpec == Init /\ [][HistoryNext]_vars

\* C30: an add_to_history call leaves the session history with the entry
\* added last and at most HistoryCap entries, the latest ones in the order
\* they were added; made while a user is logged in it adds one
\* research_history row of that user, and made while none is it leaves the
\* Store as it was
C30_HistoryCappedAndSaved ==
    [][last'.op = "add_to_history" =>
        LET entry == Activity(last'.activity_type, last'.title,
                              last'.description, clock)
            added == Append(research_history, entry)
        IN  /\ Len(research_history') <= HistoryCap
            /\ research_history' =
                   SubSeq(added, Len(added) - Len(research_history') + 1, Len(added))
            /\ Len(research_history') = Min(Len(added), HistoryCap)
            /\ current_user # None =>
                   /\ Len(db'.research_history) = Len(db.research_history) + 1
                   /\ SubSeq(db'.research_history, 1, Len(db.research_history))
                          = db.research_history
                   /\ db'.research_history[Len(db'.research_history)].user_id
                          = The(current_user).id
                   /\ \A table \in DOMAIN db \ {"research_history", "sqlite_sequence"} :
                          db'[table] = db[table]
            /\ current_user = None => db' = db]_vars

\* a call that dropped the oldest entry of a full session history, in a
\* session that had recorded an activity of a logged-in user before
C30_OldestDroppedSeen ==
    /\ last.op = "add_to_history" /\ last.capped
    /\ Len(research_history) = HistoryCap
    /\ db.sqlite_sequence["research_history"] > 0
    /\ current_user = None

---------------------------------------------------------------------------
(* The chat page: _render_chat_assistant on a submitted question.          *)

\* lines 845-848 and 855-858: a record the page appends to the transcript
PageTurn(role, content) == [role |-> role, content |-> content]

\* lines 864-865: the characters of the question the history entry keeps
PageTitleQueryLen == 50
PageDescriptionQueryLen == 100
PageHistoryTitle(user_query) ==
    <<"C", "h", "a", "t", ":", " ">> \o SliceTo(user_query, PageTitleQueryLen) \o <<".", ".", ".">>
PageHistoryDescription(user_query) ==
    <<"R", "e", "s", "e", "a", "r", "c", "h", " ", "c", "o", "n", "v", "e", "r", "s", "a", "t", "i", "o", "n", " ", "a", "b", "o", "u", "t", " ">>
    \o SliceTo(user_query, PageDescriptionQueryLen) \o <<".", ".", ".">>

\* lines 843-866: the transcript, the database and the session history
\* after the page handled the question
page_submit_chat(d, history, context, activities, user, user_query, now, adjective) ==
    LET asked == Append(history, PageTurn("user", user_query))
        r == bot_generate_response(d, asked, context, user_query, None, now,
                                   adjective)
        answered == Append(r.chat_history, PageTurn("assistant", r.ret))
        recorded ==
            IF user # None
            THEN session_add_to_history(r.db, activities, user, "chat",
                     PageHistoryTitle(user_query),
                     PageHistoryDescription(user_query), now)
            ELSE [db |-> r.db, research_history |-> activities]
    IN  [db |-> recorded.db, chat_history |-> answered,
         research_history |-> recorded.research_history, ret |-> r.ret]

chat_page_submit(user_query, adjective) ==
    LET r == page_submit_chat(db, chat_history, research_context,
                 research_history, current_user, user_query, clock, adjective)
    IN  /\ user_query # <<>>
        /\ Len(SelectSeq(chat_history, IsUserTurn)) < MaxTurns
        /\ r.db.sqlite_sequence["research_history"] <= MaxHistoryRows
        /\ db' = r.db
        /\ chat_history' = r.chat_history
        /\ research_history' = r.research_history
        /\ last' = [op |-> "chat_page_submit", user_query |-> user_query,
                    ret |-> r.ret]
        /\ UNCHANGED <<paper_search_cache, clock, research_context, current_user,
                     analyzing>>

\* the questions of the page: one the bot answers with a summary, one it
\* answers by default; the bot with and without a paper in context
PageQueries == {Query_summary_findings, Query_hello}
PageContexts == {<<>>, <<PaperA, GenerateAnalysis(PaperA)>>}

ChatPageNext ==
    \/ \E user \in NewUsers :
           create_user(user.username, user.email, user.password_hash)
    \/ \E user \in NewUsers, password \in Passwords :
           login(user.username, password)
    \/ logout
    \/ \E context \in PageContexts : update_research_context(context)
    \/ \E user_query \in PageQueries : chat_page_submit(user_query, "novel")

ChatPageSpec == Init /\ [][ChatPageNext]_vars

\* C29: a question submitted on the chat page grows the transcript by two
\* records, the user turn and then the assistant turn, whatever the
\* question, so the transcript alternates between the two roles
C29_TwoTurnsPerSubmission ==
    [][last'.op = "chat_page_submit" =>
        /\ Len(chat_history') = Len(chat_history) + 2
        /\ SubSeq(chat_history', 1, Len(chat_history)) = chat_history
        /\ chat_history'[Len(chat_history) + 1].role = "user"
        /\ chat_history'[Len(chat_history) + 2].role = "assistant"]_vars

====
